---------------------------- MODULE Spec2Model ----------------------------
(***************************************************************************)
(* A model of langcodes: the Language class (interning, parsing with       *)
(* normalization, serialization, maximization, distance) and the matcher   *)
(* closest_match.                                                          *)
(*                                                                         *)
(* A Python string is modelled as a sequence of atoms.  An atom is either  *)
(* a separator ("-" or "_") or a maximal run of letters/digits (a chunk),  *)
(* so "en_US" is <<"en", "_", "US">>.  Case and the separator are kept, so *)
(* lower-casing, splitting and joining do real work.  Python's None is the *)
(* one-atom string None below, which no tag contains.                      *)
(***************************************************************************)
EXTENDS Integers, Sequences, FiniteSets, TLC

-----------------------------------------------------------------------------
(* Strings *)

None == <<"<None>">>

\* Python truthiness of a str-or-None value or of a list
Truthy(v) == v /= None /\ v /= <<>>

\* a or b, as Python evaluates it
Or(a, b) == IF Truthy(a) THEN a ELSE b

S1(a) == <<a>>
S2(a, b) == <<a, "-", b>>
S3(a, b, c) == <<a, "-", b, "-", c>>
S4(a, b, c, d) == <<a, "-", b, "-", c, "-", d>>

\* str.lower() on one chunk (the chunks of the model that hold capitals)
Lower(a) ==
    CASE a = "US" -> "us" [] a = "GB" -> "gb" [] a = "TW" -> "tw"
      [] a = "CN" -> "cn" [] a = "JP" -> "jp" [] a = "RS" -> "rs"
      [] a = "Latn" -> "latn" [] a = "Hant" -> "hant" [] a = "Hans" -> "hans"
      [] a = "Jpan" -> "jpan" [] a = "Cyrl" -> "cyrl" [] a = "UK" -> "uk"
      [] OTHER -> a

\* str.upper() on one lower-case chunk
Upper(a) ==
    CASE a = "us" -> "US" [] a = "gb" -> "GB" [] a = "tw" -> "TW"
      [] a = "cn" -> "CN" [] a = "jp" -> "JP" [] a = "rs" -> "RS"
      [] a = "uk" -> "UK"
      [] OTHER -> a

\* str.title() on one lower-case chunk
Title(a) ==
    CASE a = "latn" -> "Latn" [] a = "hant" -> "Hant" [] a = "hans" -> "Hans"
      [] a = "jpan" -> "Jpan" [] a = "cyrl" -> "Cyrl"
      [] OTHER -> a

\* tag.lower(): separators are unchanged
LowerStr(s) == [i \in 1..Len(s) |-> Lower(s[i])]

\* len() of a chunk
AtomLen(a) ==
    IF a \in {"u", "x"} THEN 1
    ELSE IF a \in {"CN", "GB", "JP", "RS", "TW", "UK", "US", "cn", "co", "en", "gb",
                   "ja", "jp", "rs", "sh", "sr", "tw", "uk", "us", "zh"} THEN 2
    ELSE IF a \in {"ase", "cmn", "oed", "sgn", "und", "yue"} THEN 3
    ELSE IF a \in {"Cyrl", "Hans", "Hant", "Jpan", "Latn", "cyrl", "hans",
                   "hant", "jpan", "latn", "priv", "root"} THEN 4
    ELSE IF a = "heploc" THEN 6
    ELSE IF a = "hepburn" THEN 7
    ELSE IF a = "oxendict" THEN 8
    ELSE 0

\* every chunk of the model is alphabetic
IsAlpha(a) == AtomLen(a) > 0
IsDigit(a) == FALSE

\* the chunks in the order Python compares strings (code points)
AtomOrder ==
    <<"CN", "Cyrl", "GB", "Hans", "Hant", "JP", "Jpan", "Latn", "RS", "TW",
      "UK", "US", "ase", "cmn", "cn", "co", "cyrl", "en", "gb", "hans", "hant",
      "hepburn", "heploc", "ja", "jp", "jpan", "latn", "oed", "oxendict",
      "priv", "root", "rs", "sgn", "sh", "sr", "tw", "u", "uk", "und", "us",
      "x", "yue", "zh">>

Rank(a) == IF \E i \in 1..Len(AtomOrder) : AtomOrder[i] = a
           THEN CHOOSE i \in 1..Len(AtomOrder) : AtomOrder[i] = a
           ELSE 0

\* s < t for strings of one chunk each (extlangs and variants)
StrLess(s, t) == Rank(s[1]) < Rank(t[1])

\* sorted(list) of one-chunk strings
sorted(list) == SortSeq(list, StrLess)

\* '-'.join(list of strings)
RECURSIVE join(_)
join(list) ==
    IF list = <<>> THEN <<>>
    ELSE IF Len(list) = 1 THEN list[1]
    ELSE list[1] \o <<"-">> \o join(Tail(list))

IsChunk(a) == a /= "-"

\* tag.split('-') for a string without empty subtags
split(s) == SelectSeq(s, IsChunk)

-----------------------------------------------------------------------------
(* Reference tables (data_dicts): the entries the docstrings of            *)
(* langcodes/__init__.py and build_data.py document.  A table is a set of  *)
(* <<key, value>> pairs.                                                   *)

\* the value of a local variable: the one element of a singleton set
Only(S) == CHOOSE x \in S : TRUE

Has(table, key) == \E p \in table : p[1] = key
Lookup(table, key) == (CHOOSE p \in table : p[1] = key)[2]

LANGUAGE_REPLACEMENTS ==
    { <<S2("sgn", "us"), S1("ase")>>,
      <<S1("sh"), S2("sr", "Latn")>>,
      <<S3("en", "gb", "oed"), S3("en", "GB", "oxendict")>>,
      <<S1("root"), S1("und")>>,
      <<S2("zh", "cmn"), S1("cmn")>> }

TERRITORY_REPLACEMENTS == { <<S1("uk"), S1("GB")>> }

DEFAULT_SCRIPTS == { <<S1("en"), S1("Latn")>>, <<S1("ja"), S1("Jpan")>> }

NORMALIZED_MACROLANGUAGES == { <<S1("cmn"), S1("zh")>> }

LIKELY_SUBTAGS ==
    { <<S1("und"), S3("en", "Latn", "US")>>,
      <<S1("en"), S3("en", "Latn", "US")>>,
      <<S1("zh"), S3("zh", "Hans", "CN")>>,
      <<S2("zh", "Hant"), S3("zh", "Hant", "TW")>>,
      <<S2("zh", "TW"), S3("zh", "Hant", "TW")>>,
      <<S1("ja"), S3("ja", "Jpan", "JP")>>,
      <<S1("sr"), S3("sr", "Cyrl", "RS")>> }

-----------------------------------------------------------------------------
(* Tag parser (tag_parser.parse_tag) *)

\* the tags that are matched whole
GRANDFATHERED == { S3("en", "gb", "oed") }

\* lower-case the tag and read '_' as '-'
normalize_characters(tag) ==
    [i \in 1..Len(tag) |-> IF tag[i] = "_" THEN "-" ELSE Lower(tag[i])]

\* position of a subtag type in the order the grammar fixes
Level(typ) ==
    CASE typ = "language" -> 0 [] typ = "extlang" -> 1 [] typ = "script" -> 2
      [] typ = "territory" -> 3 [] typ = "variant" -> 4
      [] typ = "extension" -> 5 [] OTHER -> 6

\* what the error message lists as valid at a position
Expected(level) ==
    CASE level = 0 -> "a language code"
      [] level = 1 -> "extlang, script, territory, variant, extension, or end of string"
      [] level = 2 -> "script, territory, variant, extension, or end of string"
      [] level = 3 -> "territory, variant, extension, or end of string"
      [] level = 4 -> "variant, extension, or end of string"
      [] OTHER -> "extension, or end of string"

Parsed(comps) == [ok |-> TRUE, comps |-> comps, bad |-> "", kind |-> "", expected |-> ""]
ParseError(subtag, kind, expected) ==
    [ok |-> FALSE, comps |-> <<>>, bad |-> subtag, kind |-> kind, expected |-> expected]

\* [first component] + rest, where rest may be an error
Cons(comp, rest) ==
    Only({ IF r.ok THEN Parsed(<<comp>> \o r.comps) ELSE r : r \in {rest} })

\* the type a subtag's shape gives it after the language ("" when none)
ShapeType(subtag) ==
    LET n == AtomLen(subtag)
    IN IF n = 2 /\ IsAlpha(subtag) THEN "territory"
       ELSE IF n = 3 /\ IsAlpha(subtag) THEN "extlang"
       ELSE IF n = 3 /\ IsDigit(subtag) THEN "territory"
       ELSE IF n = 4 /\ IsAlpha(subtag) THEN "script"
       ELSE IF n = 4 /\ IsDigit(subtag) THEN "variant"
       ELSE IF n >= 5 /\ n <= 8 THEN "variant"
       ELSE ""

\* the subtag with the case of its type
CaseOf(typ, subtag) ==
    IF typ = "script" THEN Title(subtag)
    ELSE IF typ = "territory" THEN Upper(subtag)
    ELSE subtag

\* the longest prefix of subtags that belongs to an extension block
RECURSIVE ExtensionRun(_)
ExtensionRun(subtags) ==
    IF subtags = <<>> \/ AtomLen(Head(subtags)) < 2 THEN <<>>
    ELSE <<Head(subtags)>> \o ExtensionRun(Tail(subtags))

RECURSIVE parse_subtags(_, _, _)
RECURSIVE parse_extension(_, _)

\* seen: the extlang, variant and singleton subtags already read
parse_subtags(subtags, expect, seen) ==
    IF subtags = <<>> THEN Parsed(<<>>)
    ELSE LET subtag == Head(subtags)
             n == AtomLen(subtag)
             typ == ShapeType(subtag)
             extlangs == {s \in seen : ShapeType(s) = "extlang"}
         IN IF n = 0 \/ n > 8 THEN ParseError(subtag, "invalid", "1-8 characters")
            ELSE IF n = 1 THEN parse_extension(subtags, seen)
            ELSE IF typ = "" THEN ParseError(subtag, "invalid", Expected(expect))
            ELSE IF Level(typ) < expect
                 THEN ParseError(subtag, typ, Expected(expect))
            ELSE IF subtag \in seen
                 THEN ParseError(subtag, "repeated", Expected(expect))
            ELSE IF typ = "extlang" /\ Cardinality(extlangs) >= 3
                 THEN ParseError(subtag, typ, Expected(2))
            ELSE LET next == IF typ \in {"script", "territory"}
                             THEN Level(typ) + 1 ELSE Level(typ)
                     seen2 == IF typ \in {"extlang", "variant"}
                              THEN seen \cup {subtag} ELSE seen
                 IN Cons(<<typ, S1(CaseOf(typ, subtag))>>,
                         parse_subtags(Tail(subtags), next, seen2))

parse_extension(subtags, seen) ==
    LET singleton == Head(subtags)
        rest == Tail(subtags)
        run == ExtensionRun(rest)
    IN IF singleton = "x"
       THEN IF rest = <<>>
            THEN ParseError(singleton, "private", "a private-use subtag")
            ELSE Parsed(<< <<"private", join([i \in 1..Len(subtags) |-> S1(subtags[i])])>> >>)
       ELSE IF singleton \in seen
            THEN ParseError(singleton, "repeated", Expected(5))
       ELSE IF run = <<>>
            THEN ParseError(singleton, "extension", "an extension subtag")
       ELSE Cons(<<"extension",
                   join([i \in 1..Len(run) + 1 |-> S1((<<singleton>> \o run)[i])])>>,
                 parse_subtags(SubSeq(rest, Len(run) + 1, Len(rest)), 5,
                               seen \cup {singleton}))

parse_tag(tag) ==
    LET t == normalize_characters(tag)
        subtags == split(t)
        first == Head(subtags)
        n == AtomLen(first)
    IN IF t \in GRANDFATHERED THEN Parsed(<< <<"grandfathered", t>> >>)
       ELSE IF n >= 2 /\ n <= 8 /\ IsAlpha(first)
            THEN Cons(<<"language", S1(first)>>, parse_subtags(Tail(subtags), 1, {}))
       ELSE ParseError(first, "invalid", Expected(0))

-----------------------------------------------------------------------------
(* The Language class.                                                     *)
(*                                                                         *)
(* A heap h holds the two class-level caches: h.inst is _INSTANCES, the    *)
(* instance of each attribute tuple, and h.pc is _PARSE_CACHE.  A Language *)
(* object is referred to by its key in h.inst.  An operation takes the     *)
(* heap and returns [h, r, err]: the heap it leaves, its return value and  *)
(* the exception it raised (NoErr when it returned).  The three list       *)
(* attributes hold <<>> for None, [] and (), which the code never tells    *)
(* apart (make() keys them with tuple(x or ()), the rest tests truth).     *)

ATTRIBUTES == <<"language", "extlangs", "script", "territory", "variants",
                "extensions", "private">>

\* the keysets with {language, script} tried before {language, territory}
BROADER_KEYSETS_script_first ==
    << {"language", "script", "territory"}, {"language", "script"},
       {"language", "territory"}, {"language"}, {"script"}, {} >>

BROADER_KEYSETS ==
    << {"language", "script", "territory"}, {"language", "territory"},
       {"language", "script"}, {"language"}, {"script"}, {} >>

NoRef == <<>>
NoErr == <<>>
EmptyMap == [x \in {} |-> <<>>]

Put(f, k, v) == [x \in DOMAIN f \cup {k} |-> IF x = k THEN v ELSE f[x]]

Ret(h, r) == [h |-> h, r |-> r, err |-> NoErr]
Raise(h, e) == [h |-> h, r |-> NoRef, err |-> e]

LanguageTagError(p) == <<"LanguageTagError", p.bad, p.kind, p.expected>>
RuntimeError == <<"RuntimeError">>

\* a dict of attributes; an absent key holds None (a list: <<>>)
EmptyData ==
    [language |-> None, extlangs |-> <<>>, script |-> None, territory |-> None,
     variants |-> <<>>, extensions |-> <<>>, private |-> None]

\* to_tag appending the extlangs and variants in the order they were given
ComputeTag_unsorted(v) ==
    LET first == IF Truthy(v.language) THEN v.language ELSE S1("und")
        subtags == <<first>>
                   \o (IF Truthy(v.extlangs) THEN v.extlangs ELSE <<>>)
                   \o (IF Truthy(v.script) THEN <<v.script>> ELSE <<>>)
                   \o (IF Truthy(v.territory) THEN <<v.territory>> ELSE <<>>)
                   \o (IF Truthy(v.variants) THEN v.variants ELSE <<>>)
                   \o (IF Truthy(v.extensions) THEN v.extensions ELSE <<>>)
                   \o (IF Truthy(v.private) THEN <<v.private>> ELSE <<>>)
    IN join(subtags)

\* to_tag appending the territory before the script
ComputeTag_territory_first(v) ==
    LET first == IF Truthy(v.language) THEN v.language ELSE S1("und")
        subtags == <<first>>
                   \o (IF Truthy(v.extlangs) THEN sorted(v.extlangs) ELSE <<>>)
                   \o (IF Truthy(v.territory) THEN <<v.territory>> ELSE <<>>)
                   \o (IF Truthy(v.script) THEN <<v.script>> ELSE <<>>)
                   \o (IF Truthy(v.variants) THEN sorted(v.variants) ELSE <<>>)
                   \o (IF Truthy(v.extensions) THEN v.extensions ELSE <<>>)
                   \o (IF Truthy(v.private) THEN <<v.private>> ELSE <<>>)
    IN join(subtags)

\* Language.to_tag, computed from the attributes
ComputeTag(v) ==
    LET first == IF Truthy(v.language) THEN v.language ELSE S1("und")
        subtags == <<first>>
                   \o (IF Truthy(v.extlangs) THEN sorted(v.extlangs) ELSE <<>>)
                   \o (IF Truthy(v.script) THEN <<v.script>> ELSE <<>>)
                   \o (IF Truthy(v.territory) THEN <<v.territory>> ELSE <<>>)
                   \o (IF Truthy(v.variants) THEN sorted(v.variants) ELSE <<>>)
                   \o (IF Truthy(v.extensions) THEN v.extensions ELSE <<>>)
                   \o (IF Truthy(v.private) THEN <<v.private>> ELSE <<>>)
    IN join(subtags)

\* Language.__init__: the attributes, the cached members, and _str_tag set.
\* id is the identity of the object: the number of Language objects that
\* were constructed before it.
NewInstance(v, id) ==
    [id |-> id, language |-> v.language, extlangs |-> v.extlangs, script |-> v.script,
     territory |-> v.territory, variants |-> v.variants,
     extensions |-> v.extensions, private |-> v.private,
     str_tag |-> ComputeTag(v),
     simplified |-> NoRef, macrolanguage |-> NoRef, broader |-> NoRef,
     assumed |-> NoRef, filled |-> NoRef]

KeyOf(v) == <<v.language, v.extlangs, v.script, v.territory, v.variants,
              v.extensions, v.private>>

\* make constructing and storing an instance without looking for one
make_always_new(h, v) ==
    Only({ Ret([h EXCEPT !.inst = Put(h.inst, KeyOf(d), NewInstance(d, h.n)),
                         !.n = h.n + 1], KeyOf(d))
           : d \in {v} })

\* Language.make
make(h, v) ==
    Only({ IF KeyOf(d) \in DOMAIN h.inst THEN Ret(h, KeyOf(d))
           ELSE Ret([h EXCEPT !.inst = Put(h.inst, KeyOf(d), NewInstance(d, h.n)),
                              !.n = h.n + 1], KeyOf(d))
           : d \in {v} })

\* Language.to_tag: _str_tag is set by the constructor
to_tag(h, k) == h.inst[k].str_tag

\* Language.to_dict: the attributes that are truthy (absent ones read None)
to_dict(h, k) ==
    LET i == h.inst[k]
    IN [language |-> IF Truthy(i.language) THEN i.language ELSE None,
        extlangs |-> i.extlangs,
        script |-> IF Truthy(i.script) THEN i.script ELSE None,
        territory |-> IF Truthy(i.territory) THEN i.territory ELSE None,
        variants |-> i.variants,
        extensions |-> i.extensions,
        private |-> IF Truthy(i.private) THEN i.private ELSE None]

\* data.update(d) for a dict d that to_dict built
DictUpdate(data, d) ==
    [language |-> IF d.language /= None THEN d.language ELSE data.language,
     extlangs |-> IF d.extlangs /= <<>> THEN d.extlangs ELSE data.extlangs,
     script |-> IF d.script /= None THEN d.script ELSE data.script,
     territory |-> IF d.territory /= None THEN d.territory ELSE data.territory,
     variants |-> IF d.variants /= <<>> THEN d.variants ELSE data.variants,
     extensions |-> IF d.extensions /= <<>> THEN d.extensions ELSE data.extensions,
     private |-> IF d.private /= None THEN d.private ELSE data.private]

\* update with the precedence the wrong way round: self's attributes win
update_self_wins(h, self, other) ==
    LET s == h.inst[self]
        o == h.inst[other]
    IN make(h, [language |-> Or(s.language, o.language),
                extlangs |-> Or(s.extlangs, o.extlangs),
                script |-> Or(s.script, o.script),
                territory |-> Or(s.territory, o.territory),
                variants |-> Or(s.variants, o.variants),
                extensions |-> Or(s.extensions, o.extensions),
                private |-> Or(s.private, o.private)])

\* Language.update: other's attributes win where they are truthy
update(h, self, other) ==
    LET s == h.inst[self]
        o == h.inst[other]
    IN make(h, [language |-> Or(o.language, s.language),
                extlangs |-> Or(o.extlangs, s.extlangs),
                script |-> Or(o.script, s.script),
                territory |-> Or(o.territory, s.territory),
                variants |-> Or(o.variants, s.variants),
                extensions |-> Or(o.extensions, s.extensions),
                private |-> Or(o.private, s.private)])

\* the attributes of an instance as make() takes them
AttrsOf(i) ==
    [language |-> i.language, extlangs |-> i.extlangs, script |-> i.script,
     territory |-> i.territory, variants |-> i.variants,
     extensions |-> i.extensions, private |-> i.private]

\* update_dict taking the dict's value only where it is non-empty
update_dict_nonempty(h, self, key, value) ==
    make(h, [AttrsOf(h.inst[self]) EXCEPT ![key] = IF Truthy(value) THEN value ELSE @])

\* Language.update_dict for a dict with the one key `key`
update_dict(h, self, key, value) ==
    make(h, [AttrsOf(h.inst[self]) EXCEPT ![key] = value])

RECURSIVE get(_, _, _)
\* The list values of data are list objects.  to_dict() hands out the list
\* objects that are the attributes of its instance, and data.update() puts
\* them in data as they are; setdefault(key, []) makes a list of its own.
\* owner[attr] is the instance whose attribute the list data[attr] is
\* (NoRef: no instance's).
NoOwner == [extlangs |-> NoRef, variants |-> NoRef, extensions |-> NoRef]

\* the owners after data.update(instance k's to_dict())
OwnerUpdate(owner, h, k) ==
    [extlangs |-> IF h.inst[k].extlangs /= <<>> THEN k ELSE owner.extlangs,
     variants |-> IF h.inst[k].variants /= <<>> THEN k ELSE owner.variants,
     extensions |-> IF h.inst[k].extensions /= <<>> THEN k ELSE owner.extensions]

\* the heap after data[attr].append(value): the list is appended to in
\* place, so the instance that owns it sees the new item
ListAppend(h, owner, attr, value) ==
    IF owner[attr] /= NoRef
    THEN [h EXCEPT !.inst[owner[attr]][attr] = Append(@, value)]
    ELSE h

RECURSIVE GetLoop(_, _, _, _, _)

\* the for loop of Language.get over the components that are left
GetLoop(h, comps, data, owner, normalize) ==
    IF comps = <<>> THEN [h |-> h, data |-> data, err |-> NoErr]
    ELSE
    LET typ == Head(comps)[1]
        value == Head(comps)[2]
        rest == Tail(comps)
        minitag == data.language \o <<"-">> \o value
    IN IF typ = "extlang" /\ normalize /\ data.language /= None
       THEN IF Has(LANGUAGE_REPLACEMENTS, LowerStr(minitag))
            THEN Only({ IF g.err /= NoErr
                        THEN [h |-> g.h, data |-> data, err |-> g.err]
                        ELSE GetLoop(g.h, rest, DictUpdate(data, to_dict(g.h, g.r)),
                                     OwnerUpdate(owner, g.h, g.r), normalize)
                        : g \in {get(h, Lookup(LANGUAGE_REPLACEMENTS, LowerStr(minitag)),
                                     normalize)} })
            ELSE GetLoop(ListAppend(h, owner, "extlangs", value), rest,
                         [data EXCEPT !.extlangs = Append(@, value)], owner, normalize)
       ELSE IF typ = "extlang"
       THEN GetLoop(ListAppend(h, owner, "extlangs", value), rest,
                    [data EXCEPT !.extlangs = Append(@, value)], owner, normalize)
       ELSE IF typ = "variant"
       THEN GetLoop(ListAppend(h, owner, "variants", value), rest,
                    [data EXCEPT !.variants = Append(@, value)], owner, normalize)
       ELSE IF typ = "extension"
       THEN GetLoop(ListAppend(h, owner, "extensions", value), rest,
                    [data EXCEPT !.extensions = Append(@, value)], owner, normalize)
       ELSE IF typ = "language"
       THEN IF value = S1("und") THEN GetLoop(h, rest, data, owner, normalize)
            ELSE IF normalize /\ Has(LANGUAGE_REPLACEMENTS, LowerStr(value))
            THEN Only({ IF g.err /= NoErr
                        THEN [h |-> g.h, data |-> data, err |-> g.err]
                        ELSE GetLoop(g.h, rest, DictUpdate(data, to_dict(g.h, g.r)),
                                     OwnerUpdate(owner, g.h, g.r), normalize)
                        : g \in {get(h, Lookup(LANGUAGE_REPLACEMENTS, LowerStr(value)),
                                     normalize)} })
            ELSE GetLoop(h, rest, [data EXCEPT !.language = value], owner, normalize)
       ELSE IF typ = "territory"
       THEN IF normalize /\ Has(TERRITORY_REPLACEMENTS, LowerStr(value))
            THEN GetLoop(h, rest,
                         [data EXCEPT !.territory =
                              Lookup(TERRITORY_REPLACEMENTS, LowerStr(value))],
                         owner, normalize)
            ELSE GetLoop(h, rest, [data EXCEPT !.territory = value], owner, normalize)
       ELSE IF typ = "grandfathered"
       THEN GetLoop(h, rest, [data EXCEPT !.language = value], owner, normalize)
       ELSE GetLoop(h, rest, [data EXCEPT ![typ] = value], owner, normalize)

\* Language.get parsing the tag as it was given, without looking the whole
\* tag up in the replacements
get_without_whole_tag(h, tag, normalize) ==
    IF <<tag, normalize>> \in DOMAIN h.pc THEN Ret(h, h.pc[<<tag, normalize>>])
    ELSE Only({
           IF ~components.ok THEN Raise(h, LanguageTagError(components))
           ELSE Only({
                  IF loop.err /= NoErr THEN Raise(loop.h, loop.err)
                  ELSE Only({ Ret([m.h EXCEPT !.pc = Put(m.h.pc, <<tag, normalize>>, m.r)],
                                  m.r)
                              : m \in {make(loop.h, loop.data)} })
                  : loop \in {GetLoop(h, components.comps, EmptyData, NoOwner, normalize)} })
           : components \in {parse_tag(tag)} })

\* Language.get with a parse cache whose key is the tag alone
get_cache_without_normalize(h, tag, normalize) ==
    IF \E n \in BOOLEAN : <<tag, n>> \in DOMAIN h.pc
    THEN Ret(h, h.pc[CHOOSE key \in DOMAIN h.pc : key[1] = tag])
    ELSE LET tag_lower == LowerStr(tag)
             tag2 == IF normalize /\ Has(LANGUAGE_REPLACEMENTS, tag_lower)
                     THEN Lookup(LANGUAGE_REPLACEMENTS, tag_lower) ELSE tag
         IN Only({
              IF ~components.ok THEN Raise(h, LanguageTagError(components))
              ELSE Only({
                     IF loop.err /= NoErr THEN Raise(loop.h, loop.err)
                     ELSE Only({ Ret([m.h EXCEPT !.pc = Put(m.h.pc, <<tag2, normalize>>, m.r)],
                                     m.r)
                                 : m \in {make(loop.h, loop.data)} })
                     : loop \in {GetLoop(h, components.comps, EmptyData, NoOwner, normalize)} })
              : components \in {parse_tag(tag2)} })

\* Language.get for a tag that is a string
get(h, tag, normalize) ==
    IF <<tag, normalize>> \in DOMAIN h.pc THEN Ret(h, h.pc[<<tag, normalize>>])
    ELSE LET tag_lower == LowerStr(tag)
             tag2 == IF normalize /\ Has(LANGUAGE_REPLACEMENTS, tag_lower)
                     THEN Lookup(LANGUAGE_REPLACEMENTS, tag_lower) ELSE tag
         IN Only({
              IF ~components.ok THEN Raise(h, LanguageTagError(components))
              ELSE Only({
                     IF loop.err /= NoErr THEN Raise(loop.h, loop.err)
                     ELSE Only({ Ret([m.h EXCEPT !.pc = Put(m.h.pc, <<tag2, normalize>>, m.r)],
                                     m.r)
                                 : m \in {make(loop.h, loop.data)} })
                     : loop \in {GetLoop(h, components.comps, EmptyData, NoOwner, normalize)} })
              : components \in {parse_tag(tag2)} })

\* Language.get for a tag that is a Language object
get_language(h, k, normalize) ==
    IF ~normalize THEN Ret(h, k) ELSE get(h, to_tag(h, k), normalize)

\* self.<field> = val on the instance k
SetCached(h, k, field, val) == [h EXCEPT !.inst[k][field] = val]

\* dict.get(key) == value
TableMaps(table, key, value) == Has(table, key) /\ Lookup(table, key) = value

\* assume_script writing the script into the instance itself
assume_script_in_place(h, k) ==
    LET i == h.inst[k]
    IN IF Truthy(i.language) /\ ~Truthy(i.script) /\ Has(DEFAULT_SCRIPTS, i.language)
       THEN Ret([h EXCEPT !.inst[k].script = Lookup(DEFAULT_SCRIPTS, i.language)], k)
       ELSE Ret(h, k)

\* Language.assume_script
assume_script(h, k) ==
    LET i == h.inst[k]
    IN IF i.assumed /= NoRef THEN Ret(h, i.assumed)
       ELSE IF Truthy(i.language) /\ ~Truthy(i.script)
               /\ Has(DEFAULT_SCRIPTS, i.language)
       THEN Only({ Ret(SetCached(u.h, k, "assumed", u.r), u.r)
                   : u \in {update_dict(h, k, "script",
                                        Lookup(DEFAULT_SCRIPTS, i.language))} })
       ELSE Ret(SetCached(h, k, "assumed", k), k)

\* simplify_script dropping any script of a language that has a default one
simplify_script_any(h, k) ==
    LET i == h.inst[k]
    IN IF i.simplified /= NoRef THEN Ret(h, i.simplified)
       ELSE IF Truthy(i.language) /\ Truthy(i.script) /\ Has(DEFAULT_SCRIPTS, i.language)
       THEN Only({ Ret(SetCached(u.h, k, "simplified", u.r), u.r)
                   : u \in {update_dict(h, k, "script", None)} })
       ELSE Ret(SetCached(h, k, "simplified", k), k)

\* Language.simplify_script
simplify_script(h, k) ==
    LET i == h.inst[k]
    IN IF i.simplified /= NoRef THEN Ret(h, i.simplified)
       ELSE IF Truthy(i.language) /\ Truthy(i.script)
               /\ TableMaps(DEFAULT_SCRIPTS, i.language, i.script)
       THEN Only({ Ret(SetCached(u.h, k, "simplified", u.r), u.r)
                   : u \in {update_dict(h, k, "script", None)} })
       ELSE Ret(SetCached(h, k, "simplified", k), k)

\* Language.prefer_macrolanguage
prefer_macrolanguage(h, k) ==
    LET i == h.inst[k]
        language == Or(i.language, S1("und"))
    IN IF i.macrolanguage /= NoRef THEN Ret(h, i.macrolanguage)
       ELSE IF Has(NORMALIZED_MACROLANGUAGES, language)
       THEN Only({ Ret(SetCached(u.h, k, "macrolanguage", u.r), u.r)
                   : u \in {update_dict(h, k, "language",
                                        Lookup(NORMALIZED_MACROLANGUAGES, language))} })
       ELSE Ret(SetCached(h, k, "macrolanguage", k), k)

\* Language._filter_keys on a dict of attributes
filter_keys(d, keys) ==
    [language |-> IF "language" \in keys THEN d.language ELSE None,
     extlangs |-> IF "extlangs" \in keys THEN d.extlangs ELSE <<>>,
     script |-> IF "script" \in keys THEN d.script ELSE None,
     territory |-> IF "territory" \in keys THEN d.territory ELSE None,
     variants |-> IF "variants" \in keys THEN d.variants ELSE <<>>,
     extensions |-> IF "extensions" \in keys THEN d.extensions ELSE <<>>,
     private |-> IF "private" \in keys THEN d.private ELSE None]

\* Language._filter_attributes
filter_attributes(h, k, keyset) == make(h, filter_keys(to_dict(h, k), keyset))

\* set(tag): the one-character strings made of the characters of tag.  A
\* character inside a longer chunk is a string that no tag of the model
\* equals, so the set holds the separators and one-character chunks.
Chars(tag) ==
    { S1(tag[j]) : j \in { i \in 1..Len(tag) :
                              tag[i] \in {"-", "_"} \/ AtomLen(tag[i]) = 1 } }

\* the for loop of Language.broaden from the i-th keyset on
RECURSIVE BroadenLoop(_, _, _, _, _)
BroadenLoop(h, k, i, broader, seen) ==
    IF i > Len(BROADER_KEYSETS) THEN [h |-> h, broader |-> broader]
    ELSE Only({ IF to_tag(f.h, f.r) \notin seen
                THEN BroadenLoop(f.h, k, i + 1, Append(broader, f.r),
                                 seen \cup {to_tag(f.h, f.r)})
                ELSE BroadenLoop(f.h, k, i + 1, broader, seen)
                : f \in {filter_attributes(h, k, BROADER_KEYSETS[i])} })

\* Language.broaden
broaden(h, k) ==
    IF h.inst[k].broader /= NoRef THEN Ret(h, h.inst[k].broader)
    ELSE Only({ Ret(SetCached(loop.h, k, "broader", loop.broader), loop.broader)
                : loop \in {BroadenLoop(h, k, 1, <<k>>, Chars(to_tag(h, k)))} })

\* maximize looking up the tag itself only, not its broader forms
maximize_without_broaden(h, k) ==
    IF h.inst[k].filled /= NoRef THEN Ret(h, h.inst[k].filled)
    ELSE IF ~Has(LIKELY_SUBTAGS, to_tag(h, k)) THEN Raise(h, RuntimeError)
    ELSE Only({
           IF g.err /= NoErr THEN Raise(g.h, g.err)
           ELSE Only({ Ret(SetCached(u.h, k, "filled", u.r), u.r)
                       : u \in {update(g.h, g.r, k)} })
           : g \in {get(h, Lookup(LIKELY_SUBTAGS, to_tag(h, k)), FALSE)} })

\* maximize using the most general broader form that the table has
maximize_last_hit(h, k) ==
    IF h.inst[k].filled /= NoRef THEN Ret(h, h.inst[k].filled)
    ELSE Only({
           LET hits == { i \in 1..Len(b.r) : Has(LIKELY_SUBTAGS, to_tag(b.h, b.r[i])) }
           IN IF hits = {} THEN Raise(b.h, RuntimeError)
              ELSE Only({
                     Only({
                       IF g.err /= NoErr THEN Raise(g.h, g.err)
                       ELSE Only({ Ret(SetCached(u.h, k, "filled", u.r), u.r)
                                   : u \in {update(g.h, g.r, k)} })
                       : g \in {get(b.h, Lookup(LIKELY_SUBTAGS, to_tag(b.h, b.r[last])),
                                    FALSE)} })
                     : last \in { i \in hits : \A j \in hits : i >= j } })
           : b \in {broaden(h, k)} })

\* Language.maximize
maximize(h, k) ==
    IF h.inst[k].filled /= NoRef THEN Ret(h, h.inst[k].filled)
    ELSE Only({
           LET hits == { i \in 1..Len(b.r) : Has(LIKELY_SUBTAGS, to_tag(b.h, b.r[i])) }
           IN IF hits = {} THEN Raise(b.h, RuntimeError)
              ELSE Only({
                     Only({
                       IF g.err /= NoErr THEN Raise(g.h, g.err)
                       ELSE Only({ Ret(SetCached(u.h, k, "filled", u.r), u.r)
                                   : u \in {update(g.h, g.r, k)} })
                       : g \in {get(b.h, Lookup(LIKELY_SUBTAGS, to_tag(b.h, b.r[first])),
                                    FALSE)} })
                     : first \in { i \in hits : \A j \in hits : i <= j } })
           : b \in {broaden(h, k)} })

\* __eq__ comparing the identity of the objects only
eq_identity(h, a, b) == a = b

\* Language.__eq__
eq(h, a, b) == a = b \/ h.inst[a].str_tag = h.inst[b].str_tag

\* Language.__hash__: hash(id(self)), where id is the number the object got
\* when it was constructed
hash(h, self) == h.inst[self].id

-----------------------------------------------------------------------------
(* Distance engine (language_distance.tuple_distance_cached) *)

\* desired key, supported key, distance; '*' entries are the defaults
LANGUAGE_DISTANCES ==
    { << <<"zh", "_", "Hans">>, <<"zh", "_", "Hant">>, 15 >>,
      << <<"zh", "_", "Hant">>, <<"zh", "_", "Hans">>, 19 >>,
      << <<"*">>, <<"*">>, 80 >>,
      << <<"*", "_", "*">>, <<"*", "_", "*">>, 50 >> }

DEFAULT_TERRITORY_DISTANCE == 4
MAX_DISTANCE == 134

\* LANGUAGE_DISTANCES[desired][supported], or the default of the layer
RuleDistance(desired, supported, wildcard) ==
    LET rules == { r \in LANGUAGE_DISTANCES : r[1] = desired /\ r[2] = supported }
        dflt == { r \in LANGUAGE_DISTANCES : r[1] = wildcard /\ r[2] = wildcard }
    IN IF rules /= {} THEN (CHOOSE r \in rules : TRUE)[3]
       ELSE (CHOOSE r \in dflt : TRUE)[3]

Clamp(n) == IF n < 0 THEN 0 ELSE IF n > MAX_DISTANCE THEN MAX_DISTANCE ELSE n

tuple_distance_cached(desired, supported) ==
    IF desired = supported THEN 0
    ELSE LET lang == IF desired[1] /= supported[1]
                     THEN RuleDistance(desired[1], supported[1], <<"*">>)
                     ELSE 0
             script == IF desired[2] /= supported[2]
                       THEN RuleDistance(desired[1] \o <<"_">> \o desired[2],
                                         supported[1] \o <<"_">> \o supported[2],
                                         <<"*", "_", "*">>)
                       ELSE 0
             territory == IF desired[3] /= supported[3]
                          THEN DEFAULT_TERRITORY_DISTANCE ELSE 0
         IN Clamp(lang + script + territory)

-----------------------------------------------------------------------------
(* Language.distance and the module-level functions *)

WILDCARD_TRIPLE == <<S1("und"), S1("Zzzz"), S1("ZZ")>>

\* one side of distance, maximized whether it has attributes or not
Triple_maximized(h, k) ==
    Only({
      Only({ IF m.err /= NoErr THEN Raise(m.h, m.err)
             ELSE Ret(m.h, << m.h.inst[m.r].language, m.h.inst[m.r].script,
                              m.h.inst[m.r].territory >>)
             : m \in {maximize(p.h, p.r)} })
      : p \in {prefer_macrolanguage(h, k)} })

\* one side of Language.distance: the triple of the tag k
Triple(h, k) ==
    LET i == h.inst[k]
    IN IF i.language = None /\ i.script = None /\ i.territory = None
       THEN Ret(h, WILDCARD_TRIPLE)
       ELSE Only({
              Only({ IF m.err /= NoErr THEN Raise(m.h, m.err)
                     ELSE Ret(m.h, << m.h.inst[m.r].language, m.h.inst[m.r].script,
                                      m.h.inst[m.r].territory >>)
                     : m \in {maximize(p.h, p.r)} })
              : p \in {prefer_macrolanguage(h, k)} })

\* distance without the test for equal tags
distance_without_shortcut(h, self, supported) ==
    Only({ IF d.err /= NoErr THEN Raise(d.h, d.err)
           ELSE Only({ IF s.err /= NoErr THEN Raise(s.h, s.err)
                       ELSE Ret(s.h, tuple_distance_cached(d.r, s.r))
                       : s \in {Triple(d.h, supported)} })
           : d \in {Triple(h, self)} })

\* distance returning the score of match_score, 100 - distance
distance_as_score(h, self, supported) ==
    IF eq(h, supported, self) THEN Ret(h, 0)
    ELSE Only({ IF d.err /= NoErr THEN Raise(d.h, d.err)
                ELSE Only({ IF s.err /= NoErr THEN Raise(s.h, s.err)
                            ELSE Ret(s.h, 100 - tuple_distance_cached(d.r, s.r))
                            : s \in {Triple(d.h, supported)} })
                : d \in {Triple(h, self)} })

\* Language.distance
distance(h, self, supported) ==
    IF eq(h, supported, self) THEN Ret(h, 0)
    ELSE Only({ IF d.err /= NoErr THEN Raise(d.h, d.err)
                ELSE Only({ IF s.err /= NoErr THEN Raise(s.h, s.err)
                            ELSE Ret(s.h, tuple_distance_cached(d.r, s.r))
                            : s \in {Triple(d.h, supported)} })
                : d \in {Triple(h, self)} })

\* standardize_tag answering 'und' for a tag that does not parse
standardize_tag_lenient(h, tag, macro) ==
    Only({ IF g.err /= NoErr THEN Ret(g.h, S1("und"))
           ELSE Only({ Only({ Ret(s.h, to_tag(s.h, s.r))
                              : s \in {simplify_script(p.h, p.r)} })
                       : p \in {IF macro THEN prefer_macrolanguage(g.h, g.r) ELSE g} })
           : g \in {get(h, tag, TRUE)} })

\* standardize_tag for a tag that is a string
standardize_tag(h, tag, macro) ==
    Only({ IF g.err /= NoErr THEN Raise(g.h, g.err)
           ELSE Only({ Only({ Ret(s.h, to_tag(s.h, s.r))
                              : s \in {simplify_script(p.h, p.r)} })
                       : p \in {IF macro THEN prefer_macrolanguage(g.h, g.r) ELSE g} })
           : g \in {get(h, tag, TRUE)} })

\* tag_distance for two strings
tag_distance(h, desired, supported) ==
    Only({ IF d.err /= NoErr THEN Raise(d.h, d.err)
           ELSE Only({ IF s.err /= NoErr THEN Raise(s.h, s.err)
                       ELSE distance(s.h, d.r, s.r)
                       : s \in {get(d.h, supported, TRUE)} })
           : d \in {get(h, desired, TRUE)} })

\* the first list comprehension of closest_match, from the i-th candidate on
RECURSIVE MatchDistances(_, _, _, _, _)
MatchDistances(h, desired, supported_languages, i, acc) ==
    IF i > Len(supported_languages) THEN Ret(h, acc)
    ELSE Only({ IF t.err /= NoErr THEN Raise(t.h, t.err)
                ELSE MatchDistances(t.h, desired, supported_languages, i + 1,
                                    Append(acc, <<supported_languages[i], t.r>>))
                : t \in {tag_distance(h, desired, supported_languages[i])} })

\* a sort by the distance that puts an element before its equals
RECURSIVE SortByDistance_unstable(_)
SortByDistance_unstable(list) ==
    IF list = <<>> THEN <<>>
    ELSE Only({ LET x == list[Len(list)]
                    n == Cardinality({ j \in 1..Len(front) : front[j][2] < x[2] })
                IN SubSeq(front, 1, n) \o <<x>> \o SubSeq(front, n + 1, Len(front))
                : front \in {SortByDistance_unstable(SubSeq(list, 1, Len(list) - 1))} })

\* list.sort(key=itemgetter(1)): a stable sort by the distance
RECURSIVE SortByDistance(_)
SortByDistance(list) ==
    IF list = <<>> THEN <<>>
    ELSE Only({ LET x == list[Len(list)]
                    n == Cardinality({ j \in 1..Len(front) : front[j][2] <= x[2] })
                IN SubSeq(front, 1, n) \o <<x>> \o SubSeq(front, n + 1, Len(front))
                : front \in {SortByDistance(SubSeq(list, 1, Len(list) - 1))} })

InList(x, list) == \E i \in 1..Len(list) : list[i] = x

UND == S1("und")
NO_MATCH_DISTANCE == 1000

IndexError == <<"IndexError">>

\* closest_match without the first test for literal membership
closest_match_without_literal_check(h, desired_language, supported_languages, max_distance) ==
    Only({ IF st.err /= NoErr THEN Raise(st.h, st.err)
                ELSE IF InList(st.r, supported_languages) THEN Ret(st.h, <<st.r, 0>>)
                ELSE Only({ IF md.err /= NoErr THEN Raise(md.h, md.err)
                            ELSE Ret(md.h, SortByDistance(
                                     SelectSeq(md.r, LAMBDA m : m[2] <= max_distance)
                                     \o << <<UND, NO_MATCH_DISTANCE>> >>)[1])
                            : md \in {MatchDistances(st.h, st.r, supported_languages,
                                                     1, <<>>)} })
                : st \in {standardize_tag(h, desired_language, FALSE)} })

\* closest_match without the ('und', 1000) entry: [0] of an empty list raises
closest_match_without_sentinel(h, desired_language, supported_languages, max_distance) ==
    IF InList(desired_language, supported_languages)
    THEN Ret(h, <<desired_language, 0>>)
    ELSE Only({ IF st.err /= NoErr THEN Raise(st.h, st.err)
                ELSE IF InList(st.r, supported_languages) THEN Ret(st.h, <<st.r, 0>>)
                ELSE Only({ IF md.err /= NoErr THEN Raise(md.h, md.err)
                            ELSE IF SelectSeq(md.r, LAMBDA m : m[2] <= max_distance) = <<>>
                            THEN Raise(md.h, IndexError)
                            ELSE Ret(md.h, SortByDistance(
                                     SelectSeq(md.r, LAMBDA m : m[2] <= max_distance))[1])
                            : md \in {MatchDistances(st.h, st.r, supported_languages,
                                                     1, <<>>)} })
                : st \in {standardize_tag(h, desired_language, FALSE)} })

\* closest_match keeping only the candidates strictly nearer than max_distance
closest_match_strict_filter(h, desired_language, supported_languages, max_distance) ==
    IF InList(desired_language, supported_languages)
    THEN Ret(h, <<desired_language, 0>>)
    ELSE Only({ IF st.err /= NoErr THEN Raise(st.h, st.err)
                ELSE IF InList(st.r, supported_languages) THEN Ret(st.h, <<st.r, 0>>)
                ELSE Only({ IF md.err /= NoErr THEN Raise(md.h, md.err)
                            ELSE Ret(md.h, SortByDistance(
                                     SelectSeq(md.r, LAMBDA m : m[2] < max_distance)
                                     \o << <<UND, NO_MATCH_DISTANCE>> >>)[1])
                            : md \in {MatchDistances(st.h, st.r, supported_languages,
                                                     1, <<>>)} })
                : st \in {standardize_tag(h, desired_language, FALSE)} })

\* closest_match for a desired tag that is a string
closest_match(h, desired_language, supported_languages, max_distance) ==
    IF InList(desired_language, supported_languages)
    THEN Ret(h, <<desired_language, 0>>)
    ELSE Only({ IF st.err /= NoErr THEN Raise(st.h, st.err)
                ELSE IF InList(st.r, supported_languages) THEN Ret(st.h, <<st.r, 0>>)
                ELSE Only({ IF md.err /= NoErr THEN Raise(md.h, md.err)
                            ELSE Ret(md.h, SortByDistance(
                                     SelectSeq(md.r, LAMBDA m : m[2] <= max_distance)
                                     \o << <<UND, NO_MATCH_DISTANCE>> >>)[1])
                            : md \in {MatchDistances(st.h, st.r, supported_languages,
                                                     1, <<>>)} })
                : st \in {standardize_tag(h, desired_language, FALSE)} })

-----------------------------------------------------------------------------
(* The program as a state machine: a client makes up to MaxCalls calls     *)
(* into the module, which share the two class-level caches.                *)

MaxCalls == 2

\* the tag strings a client passes
Tags ==
    { S1("en"), <<"en", "_", "US">>, S2("en", "us"),
      S2("sgn", "US"), <<"sgn", "_", "US">>, S1("sh"), S2("zh", "Hant"),
      S2("zh", "TW"), S1("und"), S4("ja", "Latn", "heploc", "hepburn"),
      S3("en", "gb", "oed"), S3("zh", "yue", "cmn"), S3("zh", "cmn", "yue"),
      <<"en", "-", "u", "-", "co", "-", "x", "-", "priv">>,
      S3("en", "US", "Latn") }

\* the attribute sets a client passes to Language.make
MakeInputs ==
    { EmptyData,
      [EmptyData EXCEPT !.language = <<>>],
      [EmptyData EXCEPT !.territory = S1("GB")] }

\* the pairs of tags a client passes to tag_distance
TagPairs ==
    { <<S1("en"), S1("zh")>>, <<S2("zh", "Hans"), S2("zh", "Hant")>>,
      <<S2("zh", "Hant"), S2("zh", "Hans")>>, <<S1("und"), S1("en")>>,
      <<S1("en"), S2("en", "US")>> }

\* the desired tag and the supported tags a client passes to closest_match
MatchCases ==
    { << S2("en", "US"), <<>> >>,
      << S3("en", "US", "Latn"), <<>> >>,
      << S2("en", "US"), <<S1("en"), S2("en", "US")>> >>,
      << S2("en", "GB"), <<S2("en", "US"), S1("en")>> >>,
      << S2("en", "Latn"), <<S2("en", "US"), S1("en")>> >>,
      << S2("zh", "TW"), <<S2("zh", "Hans"), S2("zh", "Hant")>> >>,
      << <<"sgn", "_", "US">>, <<S1("ja"), S2("sgn", "US")>> >> }

MaxDistances == {-1, 4, 25}

\* the attribute sets of the instances a client calls assume_script on
AssumeInputs ==
    { [EmptyData EXCEPT !.language = S1("en")],
      [EmptyData EXCEPT !.language = S1("sr")],
      [EmptyData EXCEPT !.territory = S1("GB")] }

\* the tags a client passes to standardize_tag
StandardizeTags ==
    { <<"en", "_", "US">>, S3("en", "US", "Latn"), S3("ja", "heploc", "Latn"),
      S3("zh", "Hant", "Hans") }

\* the pairs of attribute sets whose instances a client compares with ==
EqPairs ==
    { <<EmptyData, EmptyData>>,
      <<EmptyData, [EmptyData EXCEPT !.language = <<>>]>>,
      << [EmptyData EXCEPT !.language = S1("ja"),
                           !.variants = <<S1("heploc"), S1("hepburn")>>],
         [EmptyData EXCEPT !.language = S1("ja"),
                           !.variants = <<S1("hepburn"), S1("heploc")>>] >>,
      << [EmptyData EXCEPT !.language = S1("en")],
         [EmptyData EXCEPT !.language = S1("en"), !.territory = S1("US")] >> }

-----------------------------------------------------------------------------
(* build_data.read_language_distances.  A languageMatch element is a      *)
(* record of its attributes desired, supported, distance and oneway        *)
(* (None when the element has none).  tag_distances[desired][supported] is *)
(* kept as one map from the pair <<desired, supported>>.                   *)

\* s.count('_')
RECURSIVE Count_(_)
Count_(str) ==
    IF str = <<>> THEN 0
    ELSE (IF Head(str) = "_" THEN 1 ELSE 0) + Count_(Tail(str))

\* 'sr' for 'sh'
ShToSr(code) == IF code = S1("sh") THEN S1("sr") ELSE code

\* the body of the loop over pairs giving the entry for 'sr' the distance of
\* the rule
PairWrites_same_distance(desired, supported, dist) ==
    << <<desired, supported, dist>> >>
    \o (IF (desired = S1("sh") \/ supported = S1("sh"))
           /\ ShToSr(desired) /= ShToSr(supported)
        THEN << <<ShToSr(desired), ShToSr(supported), dist>> >>
        ELSE <<>>)

\* the body of the loop over pairs: the entries it assigns, in order
PairWrites(desired, supported, dist) ==
    << <<desired, supported, dist>> >>
    \o (IF (desired = S1("sh") \/ supported = S1("sh"))
           /\ ShToSr(desired) /= ShToSr(supported)
        THEN << <<ShToSr(desired), ShToSr(supported), dist + 1>> >>
        ELSE <<>>)

\* the loop body reading every rule as a two-way rule
MatchWrites_symmetric(match) ==
    IF Count_(match.desired) + 1 < 3
    THEN PairWrites(match.desired, match.supported, match.distance)
         \o PairWrites(match.supported, match.desired, match.distance)
    ELSE <<>>

\* the body of the loop over matches: the entries one rule assigns
MatchWrites(match) ==
    IF Count_(match.desired) + 1 < 3
    THEN IF match.oneway = S1("true")
         THEN PairWrites(match.desired, match.supported, match.distance)
         ELSE PairWrites(match.desired, match.supported, match.distance)
              \o PairWrites(match.supported, match.desired, match.distance)
    ELSE <<>>

\* the assignments desired_distance[supported] = n, in order
RECURSIVE Assign(_, _)
Assign(td, ws) ==
    IF ws = <<>> THEN td
    ELSE Assign(Put(td, <<Head(ws)[1], Head(ws)[2]>>, Head(ws)[3]), Tail(ws))

\* read_language_distances over the matches that are left: the table, and
\* for each rule the entries it assigned
RECURSIVE read_language_distances(_, _, _)
read_language_distances(matches_left, td, log) ==
    IF matches_left = <<>> THEN [tag_distances |-> td, log |-> log]
    ELSE read_language_distances(
             Tail(matches_left),
             Assign(td, MatchWrites(Head(matches_left))),
             Append(log, MatchWrites(Head(matches_left))))

\* the two threads of a multi-threaded client, and the number of calls they
\* make between them
Threads == {1, 2}
MaxThreadCalls == 2

\* the instances that exist when the threads start, one per run
ThreadStarts ==
    { [EmptyData EXCEPT !.language = S1("en"), !.territory = S1("US")],
      [EmptyData EXCEPT !.language = S1("zh"), !.territory = S1("TW")] }

\* the attribute sets the threads pass to Language.make
ThreadMakeInputs ==
    { [EmptyData EXCEPT !.territory = S1("GB")],
      [EmptyData EXCEPT !.language = S1("ja")] }

\* a thread that is in no call.  op and pc: the call and the
\* statement it is at; v: the arguments of make; self: the instance of
\* broaden and maximize; obj: the object make constructed; i, seen: the
\* keyset and the local set of broaden's loop; j: the index of the list
\* iterator of maximize's loop; shared, items: whether the list the thread
\* holds is the one self._broader refers to now, and its items when it is
\* not; rid, rlist, r, err: the object, list or instance returned and the
\* exception raised.
Idle ==
    [op |-> "none", pc |-> "idle", v |-> EmptyData, self |-> NoRef, obj |-> -1,
     i |-> 0, seen |-> {}, j |-> 0, shared |-> FALSE, items |-> <<>>,
     rid |-> -1, rlist |-> <<>>, r |-> NoRef, err |-> NoErr]

\* the rules of languageInfo.xml the model draws its input from
MaxMatches == 1
Codes == { S1("sh"), S1("sr"), S1("en") }
Matches ==
    [desired : Codes \cup { <<"zh", "_", "Hans", "_", "CN">> },
     supported : Codes,
     distance : {4, 10},
     oneway : {S1("true"), S1("false"), None}]

RECURSIVE SeqsUpTo(_, _)
SeqsUpTo(S, n) ==
    IF n = 0 THEN { <<>> }
    ELSE SeqsUpTo(S, n - 1)
         \cup { Append(q, x) : q \in {r \in SeqsUpTo(S, n - 1) : Len(r) = n - 1}, x \in S }

\* matches: the languageMatch elements given to read_language_distances;
\* tag_distances: the table it returned; written: for each rule, the entries
\* it assigned; built: whether it has run
VARIABLES INSTANCES, PARSE_CACHE, nobjects, call, ncalls, threads,
          matches, tag_distances, written, built

vars == <<INSTANCES, PARSE_CACHE, nobjects, call, ncalls, threads,
          matches, tag_distances, written, built>>

datavars == <<matches, tag_distances, written, built>>

Heap == [inst |-> INSTANCES, pc |-> PARSE_CACHE, n |-> nobjects]

\* a call returns (or raises): the caches it leaves and the record of it
Returns(op, args, result) ==
    /\ ncalls < MaxCalls
    /\ \E res \in {result} :
          /\ INSTANCES' = res.h.inst
          /\ PARSE_CACHE' = res.h.pc
          /\ nobjects' = res.h.n
          /\ call' = [op |-> op, args |-> args, r |-> res.r, err |-> res.err]
    /\ ncalls' = ncalls + 1
    /\ UNCHANGED threads
    /\ UNCHANGED datavars

Init ==
    /\ INSTANCES = EmptyMap
    /\ PARSE_CACHE = EmptyMap
    /\ nobjects = 0
    /\ call = [op |-> "none", args |-> <<>>, r |-> NoRef, err |-> NoErr]
    /\ ncalls = 0
    /\ threads = [t \in Threads |-> Idle]
    /\ matches = <<>> /\ tag_distances = EmptyMap /\ written = <<>> /\ built = FALSE

\* Language.get(tag, normalize)
Get == \E tag \in Tags, normalize \in BOOLEAN :
    Returns("get", <<tag, normalize>>, get(Heap, tag, normalize))

\* Language.get(language, normalize=True) for a Language object
GetLanguage == \E k \in DOMAIN INSTANCES :
    Returns("get_language", <<k>>, get_language(Heap, k, TRUE))

\* Language.make(**v)
Make == \E v \in MakeInputs :
    Returns("make", <<v>>, make(Heap, v))

\* language.maximize()
Maximize == \E k \in DOMAIN INSTANCES :
    Returns("maximize", <<k>>, maximize(Heap, k))

\* Language.make(**d).distance(Language.make(**s))
Distance == \E d \in MakeInputs, s \in MakeInputs :
    Returns("distance", <<d, s>>,
            Only({ Only({ distance(m2.h, m1.r, m2.r) : m2 \in {make(m1.h, s)} })
                   : m1 \in {make(Heap, d)} }))

\* tag_distance(desired, supported)
TagDistance == \E p \in TagPairs :
    Returns("tag_distance", p, tag_distance(Heap, p[1], p[2]))

\* closest_match(desired, supported, max_distance)
ClosestMatch == \E c \in MatchCases, m \in MaxDistances :
    Returns("closest_match", <<c[1], c[2], m>>, closest_match(Heap, c[1], c[2], m))

\* Language.make(**v).assume_script()
AssumeScript == \E v \in AssumeInputs :
    Returns("assume_script", <<v>>,
            Only({ assume_script(m.h, m.r) : m \in {make(Heap, v)} }))

\* standardize_tag(tag, macro)
StandardizeTag == \E tag \in StandardizeTags, macro \in BOOLEAN :
    Returns("standardize_tag", <<tag, macro>>, standardize_tag(Heap, tag, macro))

\* Language.make(**a) == Language.make(**b)
Eq == \E p \in EqPairs :
    Returns("eq", p,
            Only({ Only({ Ret(m2.h, eq(m2.h, m1.r, m2.r)) : m2 \in {make(m1.h, p[2])} })
                   : m1 \in {make(Heap, p[1])} }))

Next ==
    \/ Get
    \/ GetLanguage
    \/ Make
    \/ Maximize
    \/ Distance
    \/ TagDistance
    \/ ClosestMatch
    \/ Eq
    \/ StandardizeTag
    \/ AssumeScript

Spec == Init /\ [][Next]_vars

-----------------------------------------------------------------------------
(* Threads.  The class keeps _INSTANCES and the cached members of the      *)
(* instances without a lock, so the calls of two threads interleave.  A    *)
(* step of a thread is one statement of make, broaden or maximize; a call  *)
(* of _filter_attributes, and the get and update of a table hit, are one   *)
(* step each.                                                              *)

SetHeap(h) ==
    /\ INSTANCES' = h.inst
    /\ PARSE_CACHE' = h.pc
    /\ nobjects' = h.n

\* the instance the threads share: the first object constructed
Shared == CHOOSE k \in DOMAIN INSTANCES : INSTANCES[k].id = 0

\* the items of the list a thread holds
ListOf(th) == IF th.shared THEN INSTANCES[th.self].broader ELSE th.items

\* return self._broader: to the caller of broaden, or to maximize's loop
ReturnBroader(th) ==
    IF th.op = "broaden"
    THEN [th EXCEPT !.pc = "done", !.rlist = INSTANCES[th.self].broader]
    ELSE [th EXCEPT !.pc = "m_iter", !.shared = TRUE, !.j = 1]

InitThreads ==
    /\ \E v \in ThreadStarts :
          \E m \in {make([inst |-> EmptyMap, pc |-> EmptyMap, n |-> 0], v)} :
             /\ INSTANCES = m.h.inst
             /\ PARSE_CACHE = m.h.pc
             /\ nobjects = m.h.n
    /\ call = [op |-> "none", args |-> <<>>, r |-> NoRef, err |-> NoErr]
    /\ ncalls = 0
    /\ threads = [t \in Threads |-> Idle]
    /\ matches = <<>> /\ tag_distances = EmptyMap /\ written = <<>> /\ built = FALSE

\* a thread calls Language.make(**v)
CallMake(t) == \E v \in ThreadMakeInputs :
    /\ threads[t].pc \in {"idle", "done"}
    /\ ncalls < MaxThreadCalls
    /\ threads' = [threads EXCEPT ![t] = [Idle EXCEPT !.op = "make", !.pc = "mk_check",
                                                      !.v = v]]
    /\ ncalls' = ncalls + 1
    /\ UNCHANGED <<INSTANCES, PARSE_CACHE, nobjects, call>>
    /\ UNCHANGED datavars

\* a thread calls broaden() on the shared instance
CallBroaden(t) ==
    /\ threads[t].pc \in {"idle", "done"}
    /\ ncalls < MaxThreadCalls
    /\ threads' = [threads EXCEPT ![t] = [Idle EXCEPT !.op = "broaden", !.pc = "b_check",
                                                      !.self = Shared]]
    /\ ncalls' = ncalls + 1
    /\ UNCHANGED <<INSTANCES, PARSE_CACHE, nobjects, call>>
    /\ UNCHANGED datavars

\* a thread calls maximize() on the shared instance
CallMaximize(t) ==
    /\ threads[t].pc \in {"idle", "done"}
    /\ ncalls < MaxThreadCalls
    /\ threads' = [threads EXCEPT ![t] = [Idle EXCEPT !.op = "maximize", !.pc = "m_check",
                                                      !.self = Shared]]
    /\ ncalls' = ncalls + 1
    /\ UNCHANGED <<INSTANCES, PARSE_CACHE, nobjects, call>>
    /\ UNCHANGED datavars

\* make: if values in cls._INSTANCES: return cls._INSTANCES[values]
MakeCheck(t) ==
    /\ threads[t].pc = "mk_check"
    /\ threads' = IF KeyOf(threads[t].v) \in DOMAIN INSTANCES
                  THEN [threads EXCEPT ![t].pc = "done",
                                       ![t].rid = INSTANCES[KeyOf(threads[t].v)].id]
                  ELSE [threads EXCEPT ![t].pc = "mk_construct"]
    /\ UNCHANGED <<INSTANCES, PARSE_CACHE, nobjects, call, ncalls>>
    /\ UNCHANGED datavars

\* make: instance = cls(...)
MakeConstruct(t) ==
    /\ threads[t].pc = "mk_construct"
    /\ threads' = [threads EXCEPT ![t].pc = "mk_store", ![t].obj = nobjects]
    /\ nobjects' = nobjects + 1
    /\ UNCHANGED <<INSTANCES, PARSE_CACHE, call, ncalls>>
    /\ UNCHANGED datavars

\* make: cls._INSTANCES[values] = instance; return instance
MakeStore(t) ==
    /\ threads[t].pc = "mk_store"
    /\ INSTANCES' = Put(INSTANCES, KeyOf(threads[t].v),
                        NewInstance(threads[t].v, threads[t].obj))
    /\ threads' = [threads EXCEPT ![t].pc = "done", ![t].rid = threads[t].obj]
    /\ UNCHANGED <<PARSE_CACHE, nobjects, call, ncalls>>
    /\ UNCHANGED datavars

\* broaden: if self._broader is not None: return self._broader
BroadenCheck(t) ==
    /\ threads[t].pc = "b_check"
    /\ threads' = IF INSTANCES[threads[t].self].broader /= NoRef
                  THEN [threads EXCEPT ![t] = ReturnBroader(threads[t])]
                  ELSE [threads EXCEPT ![t].pc = "b_init"]
    /\ UNCHANGED <<INSTANCES, PARSE_CACHE, nobjects, call, ncalls>>
    /\ UNCHANGED datavars

\* broaden: self._broader = [self]; seen = set(self.to_tag()).  A thread
\* that holds the list self._broader referred to keeps that list.
BroadenInit(t) ==
    /\ threads[t].pc = "b_init"
    /\ INSTANCES' = [INSTANCES EXCEPT ![threads[t].self].broader = <<threads[t].self>>]
    /\ threads' =
          [u \in Threads |->
             IF u = t
             THEN [threads[t] EXCEPT !.pc = "b_loop", !.i = 1,
                                     !.seen = Chars(to_tag(Heap, threads[t].self))]
             ELSE IF threads[u].shared /\ threads[u].self = threads[t].self
             THEN [threads[u] EXCEPT !.shared = FALSE,
                                     !.items = INSTANCES[threads[t].self].broader]
             ELSE threads[u]]
    /\ UNCHANGED <<PARSE_CACHE, nobjects, call, ncalls>>
    /\ UNCHANGED datavars

\* broaden: one iteration of the loop over BROADER_KEYSETS
BroadenStep(t) ==
    /\ threads[t].pc = "b_loop"
    /\ threads[t].i <= Len(BROADER_KEYSETS)
    /\ \E f \in {filter_attributes(Heap, threads[t].self,
                                    BROADER_KEYSETS[threads[t].i])} :
          IF to_tag(f.h, f.r) \notin threads[t].seen
          THEN /\ SetHeap([f.h EXCEPT !.inst[threads[t].self].broader =
                                         Append(@, f.r)])
               /\ threads' = [threads EXCEPT ![t].i = @ + 1,
                                             ![t].seen = @ \cup {to_tag(f.h, f.r)}]
          ELSE /\ SetHeap(f.h)
               /\ threads' = [threads EXCEPT ![t].i = @ + 1]
    /\ UNCHANGED <<call, ncalls>>
    /\ UNCHANGED datavars

\* broaden: return self._broader
BroadenReturn(t) ==
    /\ threads[t].pc = "b_loop"
    /\ threads[t].i > Len(BROADER_KEYSETS)
    /\ threads' = [threads EXCEPT ![t] = ReturnBroader(threads[t])]
    /\ UNCHANGED <<INSTANCES, PARSE_CACHE, nobjects, call, ncalls>>
    /\ UNCHANGED datavars

\* maximize: if self._filled is not None: return self._filled
MaximizeCheck(t) ==
    /\ threads[t].pc = "m_check"
    /\ threads' = IF INSTANCES[threads[t].self].filled /= NoRef
                  THEN [threads EXCEPT ![t].pc = "done",
                                       ![t].r = INSTANCES[threads[t].self].filled]
                  ELSE [threads EXCEPT ![t].pc = "b_check"]
    /\ UNCHANGED <<INSTANCES, PARSE_CACHE, nobjects, call, ncalls>>
    /\ UNCHANGED datavars

\* maximize: the list iterator yields the next item; tag = broader.to_tag();
\* if tag in LIKELY_SUBTAGS
MaximizeIter(t) ==
    /\ threads[t].pc = "m_iter"
    /\ threads[t].j <= Len(ListOf(threads[t]))
    /\ threads' = IF Has(LIKELY_SUBTAGS, to_tag(Heap, ListOf(threads[t])[threads[t].j]))
                  THEN [threads EXCEPT ![t].pc = "m_fill"]
                  ELSE [threads EXCEPT ![t].j = @ + 1]
    /\ UNCHANGED <<INSTANCES, PARSE_CACHE, nobjects, call, ncalls>>
    /\ UNCHANGED datavars

\* maximize: result = Language.get(LIKELY_SUBTAGS[tag], normalize=False);
\* result = result.update(self); self._filled = result; return result
MaximizeFill(t) ==
    /\ threads[t].pc = "m_fill"
    /\ \E g \in {get(Heap, Lookup(LIKELY_SUBTAGS,
                                   to_tag(Heap, ListOf(threads[t])[threads[t].j])),
                       FALSE)} :
          IF g.err /= NoErr
          THEN /\ SetHeap(g.h)
               /\ threads' = [threads EXCEPT ![t].pc = "done", ![t].err = g.err]
          ELSE \E u \in {update(g.h, g.r, threads[t].self)} :
                  /\ SetHeap(SetCached(u.h, threads[t].self, "filled", u.r))
                  /\ threads' = [threads EXCEPT ![t].pc = "done", ![t].r = u.r]
    /\ UNCHANGED <<call, ncalls>>
    /\ UNCHANGED datavars

\* maximize that answers the instance itself, and caches it, when the
\* list has no hit
MaximizeExhausted_caching(t) ==
    /\ threads[t].pc = "m_iter"
    /\ threads[t].j > Len(ListOf(threads[t]))
    /\ INSTANCES' = [INSTANCES EXCEPT ![threads[t].self].filled = threads[t].self]
    /\ threads' = [threads EXCEPT ![t].pc = "done", ![t].r = threads[t].self]
    /\ UNCHANGED <<PARSE_CACHE, nobjects, call, ncalls>>
    /\ UNCHANGED datavars

\* maximize: the list iterator is exhausted; raise RuntimeError
MaximizeExhausted(t) ==
    /\ threads[t].pc = "m_iter"
    /\ threads[t].j > Len(ListOf(threads[t]))
    /\ threads' = [threads EXCEPT ![t].pc = "done", ![t].err = RuntimeError]
    /\ UNCHANGED <<INSTANCES, PARSE_CACHE, nobjects, call, ncalls>>
    /\ UNCHANGED datavars

NextThreads ==
    \/ \E t \in Threads : CallMake(t)
    \/ \E t \in Threads : CallBroaden(t)
    \/ \E t \in Threads : CallMaximize(t)
    \/ \E t \in Threads : MakeCheck(t)
    \/ \E t \in Threads : MakeConstruct(t)
    \/ \E t \in Threads : MakeStore(t)
    \/ \E t \in Threads : BroadenCheck(t)
    \/ \E t \in Threads : BroadenInit(t)
    \/ \E t \in Threads : BroadenStep(t)
    \/ \E t \in Threads : BroadenReturn(t)
    \/ \E t \in Threads : MaximizeCheck(t)
    \/ \E t \in Threads : MaximizeIter(t)
    \/ \E t \in Threads : MaximizeFill(t)
    \/ \E t \in Threads : MaximizeExhausted(t)

SpecThreads == InitThreads /\ [][NextThreads]_vars

-----------------------------------------------------------------------------
(* The operations that derive a tag from tags, applied to instances made   *)
(* from attribute sets drawn at the start.                                 *)

\* the attribute sets the instances are made from
AttrSets ==
    { EmptyData,
      [EmptyData EXCEPT !.language = S1("cmn")],
      [EmptyData EXCEPT !.language = S1("en"), !.script = S1("Latn"),
                        !.territory = S1("GB"), !.variants = <<S1("heploc")>>],
      [EmptyData EXCEPT !.language = S1("en"), !.script = S1("Hant")],
      [EmptyData EXCEPT !.script = S1("Latn")],
      [EmptyData EXCEPT !.language = S1("zh"), !.script = S1("Hant"),
                        !.territory = S1("TW")],
      [EmptyData EXCEPT !.language = S1("ja"), !.script = S1("Jpan"),
                        !.private = <<"x", "-", "priv">>] }

\* the one-key dicts a client passes to update_dict
FieldDicts ==
    { <<"script", None>>, <<"script", S1("Latn")>>, <<"variants", <<>> >> }

\* the instances made at the start
Inputs == { k \in DOMAIN INSTANCES : INSTANCES[k].id < 2 }

InitTags ==
    /\ \E a \in AttrSets, b \in AttrSets :
          \E m \in {make(make([inst |-> EmptyMap, pc |-> EmptyMap, n |-> 0], a).h, b)} :
             /\ INSTANCES = m.h.inst
             /\ PARSE_CACHE = m.h.pc
             /\ nobjects = m.h.n
    /\ call = [op |-> "none", args |-> <<>>, r |-> NoRef, err |-> NoErr]
    /\ ncalls = 0
    /\ threads = [t \in Threads |-> Idle]
    /\ matches = <<>> /\ tag_distances = EmptyMap /\ written = <<>> /\ built = FALSE

\* self.update(other)
Update == \E self \in Inputs, other \in Inputs :
    Returns("update", <<self, other>>, update(Heap, self, other))

\* self.update_dict({key: value})
UpdateDict == \E self \in Inputs, f \in FieldDicts :
    Returns("update_dict", <<self, f[1], f[2]>>, update_dict(Heap, self, f[1], f[2]))

\* self.simplify_script()
SimplifyScript == \E self \in Inputs :
    Returns("simplify_script", <<self>>, simplify_script(Heap, self))

\* self.distance(supported)
DistanceBetween == \E self \in Inputs, supported \in Inputs :
    Returns("distance_between", <<self, supported>>, distance(Heap, self, supported))

NextTags ==
    \/ Update
    \/ UpdateDict
    \/ SimplifyScript
    \/ DistanceBetween

SpecTags == InitTags /\ [][NextTags]_vars

-----------------------------------------------------------------------------
(* Building the distance table, and looking distances up.                  *)

\* ---- Language.get over tags of every kind of replacement ----

\* the tags a client parses: whole tags that have a replacement, deprecated
\* language subtags, extlangs with and without a replacement of the pair,
\* a territory that has a replacement, and the replacements themselves
GetTags ==
    { S2("sgn", "US"), S3("en", "gb", "oed"), S1("und"), S1("root"),
      S1("sh"), S2("sh", "Cyrl"), S2("sr", "Latn"), S1("ase"),
      S2("zh", "cmn"), S3("zh", "cmn", "yue"), S3("zh", "yue", "cmn"),
      S2("en", "uk"), S3("en", "GB", "oxendict") }

\* Language.get(tag, normalize) for a string
GetTag == \E tag \in GetTags, normalize \in BOOLEAN :
    Returns("get_tag", <<tag, normalize>>, get(Heap, tag, normalize))

NextGet == GetTag \/ GetLanguage

SpecGet == Init /\ [][NextGet]_vars

\* ---- the distance table built from drawn rules ----

InitData ==
    /\ INSTANCES = EmptyMap
    /\ PARSE_CACHE = EmptyMap
    /\ nobjects = 0
    /\ call = [op |-> "none", args |-> <<>>, r |-> NoRef, err |-> NoErr]
    /\ ncalls = 0
    /\ threads = [t \in Threads |-> Idle]
    /\ matches \in SeqsUpTo(Matches, MaxMatches)
    /\ tag_distances = EmptyMap
    /\ written = <<>>
    /\ built = FALSE

\* tag_distances = read_language_distances()
ReadLanguageDistances ==
    /\ ~built
    /\ \E res \in {read_language_distances(matches, EmptyMap, <<>>)} :
          /\ tag_distances' = res.tag_distances
          /\ written' = res.log
    /\ built' = TRUE
    /\ UNCHANGED <<INSTANCES, PARSE_CACHE, nobjects, call, ncalls, threads, matches>>

\* the pairs of tags looked up when the table is built
DistancePairs ==
    { <<S2("zh", "Hans"), S2("zh", "Hant")>>, <<S2("zh", "Hant"), S2("zh", "Hans")>> }

\* tag_distance(desired, supported) with the table built
TagDistanceBuilt == \E p \in DistancePairs :
    /\ built
    /\ Returns("tag_distance", p, tag_distance(Heap, p[1], p[2]))

NextData ==
    \/ ReadLanguageDistances
    \/ TagDistanceBuilt

SpecData == InitData /\ [][NextData]_vars

-----------------------------------------------------------------------------
(* Claims *)

Called(op) == call.op = op /\ call.err = NoErr

\* C1: distance(desired, supported) is 0 whenever the two tags are equal by
\* value (same serialization), the same object or not, and it gets there
\* without computing a triple: no instance is created beyond the two
\* arguments, no cached member is set and the parse cache is untouched.
C1_DistanceOfEqualIsZero ==
    [][ (call'.op = "distance"
         /\ ComputeTag(call'.args[1]) = ComputeTag(call'.args[2]))
        => /\ call'.err = NoErr
           /\ call'.r = 0
           /\ INSTANCES' = make(make(Heap, call'.args[1]).h, call'.args[2]).h.inst
           /\ PARSE_CACHE' = PARSE_CACHE ]_vars

\* C1 witness: two different objects with the same serialization were compared
C1_Witness ==
    /\ Called("distance")
    /\ call.args[1] /= call.args[2]
    /\ ComputeTag(call.args[1]) = ComputeTag(call.args[2])
    /\ call.r = 0

\* C2: every distance that Language.distance returns is an integer in 0..134
C2_DistanceInRange ==
    (Called("distance") \/ Called("tag_distance")) => call.r \in 0..MAX_DISTANCE

\* C2 witness: a distance at the upper end of the range was returned
C2_Witness == Called("tag_distance") /\ call.r = MAX_DISTANCE

\* the entries of the likely-subtags table that maximize() of k may use
LikelyEntriesOf(k) ==
    { p \in LIKELY_SUBTAGS :
        \E i \in 1..Len(broaden(Heap, k).r) :
            to_tag(broaden(Heap, k).h, broaden(Heap, k).r[i]) = p[1] }

\* C3: maximize() keeps every attribute that is non-empty in the receiver;
\* the attributes that are empty in the receiver hold what an entry of the
\* likely-subtags table for a broadened form of the receiver gives.
C3_MaximizeKeepsFields ==
    Called("maximize") =>
        LET self == INSTANCES[call.args[1]]
            res == INSTANCES[call.r]
        IN /\ \A i \in 1..Len(ATTRIBUTES) :
                Truthy(self[ATTRIBUTES[i]]) => res[ATTRIBUTES[i]] = self[ATTRIBUTES[i]]
           /\ \E p \in LikelyEntriesOf(call.args[1]) :
                LET g == get(Heap, p[2], FALSE)
                IN \A i \in 1..Len(ATTRIBUTES) :
                     ~Truthy(self[ATTRIBUTES[i]])
                        => res[ATTRIBUTES[i]] = g.h.inst[g.r][ATTRIBUTES[i]]

\* C3 witness: maximize() of the tag with only territory GB filled in the
\* language and the script and kept the territory
C3_Witness ==
    /\ Called("maximize")
    /\ INSTANCES[call.args[1]].language = None
    /\ INSTANCES[call.args[1]].territory = S1("GB")
    /\ INSTANCES[call.r].language = S1("en")
    /\ INSTANCES[call.r].script = S1("Latn")

\* C4: maximize() is idempotent: the maximize() of what maximize() returned
\* succeeds and equals it
C4_MaximizeIdempotent ==
    Called("maximize") =>
        LET again == maximize(Heap, call.r)
        IN again.err = NoErr /\ eq(again.h, again.r, call.r)

\* C4 witness: maximize() returned a tag other than its receiver
C4_Witness ==
    /\ Called("maximize")
    /\ INSTANCES[call.r].str_tag /= INSTANCES[call.args[1]].str_tag

\* C5: normalization is idempotent: getting, with normalize=True, the
\* Language that Language.get(s, normalize=True) returned gives an equal
\* Language.
C5_NormalizeIdempotent ==
    (Called("get") /\ call.args[2]) =>
        LET again == get_language(Heap, call.r, TRUE)
        IN again.err = NoErr /\ eq(again.h, again.r, call.r)

\* the values of the components of one type, in the order of the parse
ValuesOf(comps, typ) ==
    LET sel == SelectSeq(comps, LAMBDA c : c[1] = typ)
    IN [i \in 1..Len(sel) |-> sel[i][2]]

\* the subtags of s in the canonical order, joined with '-'
Reordered(s) ==
    LET c == parse_tag(s).comps
    IN join(ValuesOf(c, "grandfathered") \o ValuesOf(c, "language")
            \o sorted(ValuesOf(c, "extlang")) \o ValuesOf(c, "script")
            \o ValuesOf(c, "territory") \o sorted(ValuesOf(c, "variant"))
            \o ValuesOf(c, "extension") \o ValuesOf(c, "private"))

\* t with the separators that s has at the same positions
WithSeparatorsOf(t, s) ==
    [i \in 1..Len(t) |-> IF t[i] = "-" /\ i <= Len(s) /\ s[i] = "_" THEN "_" ELSE t[i]]

\* a and b have the same subtags, each as many times, whatever the case
SameSubtags(a, b) ==
    LET x == split(normalize_characters(a))
        y == split(normalize_characters(b))
    IN /\ Len(x) = Len(y)
       /\ \A i \in 1..Len(x) :
            Cardinality({ j \in 1..Len(x) : x[j] = x[i] })
                = Cardinality({ j \in 1..Len(y) : y[j] = x[i] })

\* C6 as stated: without normalization, to_tag() of the parsed tag is s up
\* to case and the canonical order of the subtags.
C6_RoundTripUpToCaseAndOrder ==
    (Called("get") /\ ~call.args[2]) =>
        LET s == call.args[1]
            out == to_tag(Heap, call.r)
        IN /\ SameSubtags(Reordered(s), s)
           /\ LowerStr(out) = LowerStr(WithSeparatorsOf(Reordered(s), s))

\* C6 amended: without normalization, to_tag() of the parsed tag is s up to
\* case, the separator (every '_' is written '-') and the canonical order.
C6_RoundTripUpToCaseSeparatorAndOrder ==
    (Called("get") /\ ~call.args[2]) =>
        LET s == call.args[1]
            out == to_tag(Heap, call.r)
        IN /\ SameSubtags(Reordered(s), s)
           /\ LowerStr(out) = LowerStr(Reordered(s))

\* C6 witness: a tag with two variants out of order was parsed without
\* normalization and serialized with the variants sorted
C6_Witness ==
    /\ Called("get") /\ ~call.args[2]
    /\ call.args[1] = S4("ja", "Latn", "heploc", "hepburn")
    /\ to_tag(Heap, call.r) = S4("ja", "Latn", "hepburn", "heploc")

\* C7: when the desired tag is literally in the supported list, closest_match
\* returns (desired, 0) for every max_distance and parses nothing: no
\* Language is created and the parse cache is untouched.
C7_LiteralShortCircuit ==
    [][ (call'.op = "closest_match" /\ InList(call'.args[1], call'.args[2]))
        => /\ call'.err = NoErr
           /\ call'.r = <<call'.args[1], 0>>
           /\ INSTANCES' = INSTANCES
           /\ PARSE_CACHE' = PARSE_CACHE ]_vars

\* C7 witness: the literal member came back under a negative max_distance,
\* with no Language created
C7_Witness ==
    /\ Called("closest_match")
    /\ InList(call.args[1], call.args[2])
    /\ call.args[3] < 0
    /\ call.r = <<call.args[1], 0>>
    /\ ncalls = 1 /\ INSTANCES = EmptyMap

\* C8: with an empty supported list, closest_match of a desired tag that
\* parses returns ('und', 1000) and does not raise, whatever max_distance is.
C8_EmptySupported ==
    (call.op = "closest_match" /\ call.args[2] = <<>> /\ parse_tag(call.args[1]).ok)
        => call.err = NoErr /\ call.r = <<UND, NO_MATCH_DISTANCE>>

\* C8 witness: closest_match returned ('und', 1000) for an empty list
C8_Witness ==
    /\ Called("closest_match")
    /\ call.args[2] = <<>>
    /\ call.r = <<UND, NO_MATCH_DISTANCE>>

\* the positions of the candidates nearest to the tag d
Nearest(d, supported) ==
    { i \in 1..Len(supported) :
        \A j \in 1..Len(supported) :
            tag_distance(Heap, d, supported[i]).r <= tag_distance(Heap, d, supported[j]).r }

First(set) == CHOOSE i \in set : \A j \in set : i <= j

\* the desired tag as closest_match standardizes it
Standardized(d) == standardize_tag(Heap, d, FALSE).r

C11_Interning ==
    [][ /\ \A k \in DOMAIN INSTANCES :
              k \in DOMAIN INSTANCES' /\ INSTANCES'[k].id = INSTANCES[k].id
        /\ (call'.op = "make" /\ KeyOf(call'.args[1]) \in DOMAIN INSTANCES)
              => /\ call'.r = KeyOf(call'.args[1])
                 /\ nobjects' = nobjects ]_vars

\* C11 witness: make returned an instance that an earlier call had built and
\* maximized
C11_Witness ==
    /\ Called("make")
    /\ INSTANCES[call.r].filled /= NoRef
    /\ nobjects > INSTANCES[call.r].id

\* C12: two Language objects compare equal exactly when their to_tag()
\* serializations are equal, however the fields are given (None or '' for
\* the language, the variants in one order or the other).
C12_EqIffSameTag ==
    Called("eq") =>
        call.r = (to_tag(Heap, KeyOf(call.args[1])) = to_tag(Heap, KeyOf(call.args[2])))

\* C12 witness: two different objects, made with the variants in different
\* orders, compared equal
C12_Witness ==
    /\ Called("eq")
    /\ call.r = TRUE
    /\ INSTANCES[KeyOf(call.args[1])].id /= INSTANCES[KeyOf(call.args[2])].id
    /\ call.args[1].variants /= call.args[2].variants

\* a str-or-None attribute as a list of zero or one subtags
Opt(x) == IF Truthy(x) THEN <<x>> ELSE <<>>

AllEmpty(i) ==
    /\ ~Truthy(i.language) /\ ~Truthy(i.extlangs) /\ ~Truthy(i.script)
    /\ ~Truthy(i.territory) /\ ~Truthy(i.variants) /\ ~Truthy(i.extensions)
    /\ ~Truthy(i.private)

\* C13: to_tag() of every instance is its subtags joined by '-' in the order
\* language, extlangs sorted, script, territory, variants sorted, extensions
\* as given, private; the first subtag is 'und' when the language is empty,
\* and an instance with every attribute empty serializes as exactly 'und'.
C13_SubtagOrder ==
    \A k \in DOMAIN INSTANCES :
        /\ to_tag(Heap, k) =
              join(Opt(Or(INSTANCES[k].language, S1("und")))
                   \o sorted(INSTANCES[k].extlangs)
                   \o Opt(INSTANCES[k].script)
                   \o Opt(INSTANCES[k].territory)
                   \o sorted(INSTANCES[k].variants)
                   \o INSTANCES[k].extensions
                   \o Opt(INSTANCES[k].private))
        /\ AllEmpty(INSTANCES[k]) => to_tag(Heap, k) = S1("und")

\* C13 witness: an instance with a script whose variants were given out of
\* order, next to the instance with every attribute empty
C13_Witness ==
    /\ \E k \in DOMAIN INSTANCES :
          /\ Truthy(INSTANCES[k].script)
          /\ Len(INSTANCES[k].variants) > 1
          /\ INSTANCES[k].variants /= sorted(INSTANCES[k].variants)
    /\ \E k \in DOMAIN INSTANCES : AllEmpty(INSTANCES[k])

\* the position the grammar has reached after a subtag of this shape
After(subtag) ==
    IF ShapeType(subtag) \in {"script", "territory"}
    THEN Level(ShapeType(subtag)) + 1 ELSE Level(ShapeType(subtag))

\* the subtags of a tag after its language, up to the first singleton
Body(tag) ==
    LET subtags == Tail(split(normalize_characters(tag)))
        cut == {i \in 1..Len(subtags) : AtomLen(subtags[i]) = 1}
    IN IF cut = {} THEN subtags
       ELSE SubSeq(subtags, 1, (CHOOSE i \in cut : \A j \in cut : i <= j) - 1)

\* the indices of the subtags whose shape belongs before the position reached
OutOfPlace(tag) ==
    {j \in 2..Len(Body(tag)) : Level(ShapeType(Body(tag)[j])) < After(Body(tag)[j - 1])}

\* C14: a call of Language.get or standardize_tag with a tag in which a
\* subtag has the shape of an earlier position than the one reached raises
\* the malformed-tag error, which names the first such subtag and its type
\* and lists what was expected at the position reached.
C14_OutOfPlaceRaises ==
    (/\ call.op \in {"get", "standardize_tag"}
     /\ normalize_characters(call.args[1]) \notin GRANDFATHERED
     /\ OutOfPlace(call.args[1]) /= {})
    => \E j \in OutOfPlace(call.args[1]) :
          /\ \A i \in OutOfPlace(call.args[1]) : j <= i
          /\ call.err = << "LanguageTagError", Body(call.args[1])[j],
                           ShapeType(Body(call.args[1])[j]),
                           Expected(After(Body(call.args[1])[j - 1])) >>

\* C14 witness: standardize_tag('en-US-Latn') raised the error that names
\* the script 'latn' and lists what may follow a territory
C14_Witness ==
    /\ call.op = "standardize_tag"
    /\ call.args[1] = S3("en", "US", "Latn")
    /\ call.err = << "LanguageTagError", "latn", "script",
                     "variant, extension, or end of string" >>

\* no item of a list of instances has its tag in LIKELY_SUBTAGS
NoHit(list) ==
    \A i \in 1..Len(list) : ~Has(LIKELY_SUBTAGS, to_tag(Heap, list[i]))

CompleteBroader(k) ==
    broaden([Heap EXCEPT !.inst[k].broader = NoRef], k).r

\* C16: a thread never observes a partially built cache value: the list a
\* broaden() call returned, and the list a maximize() call walks, is the
\* complete list of the instance.
C16_NoPartialList ==
    \A t \in Threads :
        /\ (threads[t].op = "broaden" /\ threads[t].pc = "done")
              => threads[t].rlist = CompleteBroader(threads[t].self)
        /\ (threads[t].op = "maximize" /\ threads[t].pc = "m_iter")
              => ListOf(threads[t]) = CompleteBroader(threads[t].self)

\* C17: two threads that called make with the same values hold the same
\* object, and it is the object the table holds for every later call.
C17_RaceHarmless ==
    \A t \in Threads, u \in Threads :
        (/\ threads[t].op = "make" /\ threads[t].pc = "done"
         /\ threads[u].op = "make" /\ threads[u].pc = "done"
         /\ threads[t].v = threads[u].v)
        => /\ threads[t].rid = threads[u].rid
           /\ threads[t].rid = INSTANCES[KeyOf(threads[t].v)].id

\* the seven attributes of an instance
Attributes(i) ==
    <<i.language, i.extlangs, i.script, i.territory, i.variants, i.extensions,
      i.private>>

\* C18: no call changes an instance that exists: it stays in the table, and
\* its seven attributes and its serialization are after the call what they
\* were before it; they are the values it was constructed from.
C18_InstancesImmutable ==
    [][ \A k \in DOMAIN INSTANCES :
          /\ k \in DOMAIN INSTANCES'
          /\ Attributes(INSTANCES'[k]) = Attributes(INSTANCES[k])
          /\ to_tag([Heap EXCEPT !.inst = INSTANCES'], k) = to_tag(Heap, k)
          /\ Attributes(INSTANCES[k]) = k ]_vars

\* C18 witness: Language.get has built 'zh-cmn-yue' from the to_dict() of the
\* instance of the replacement of 'zh-cmn' (cmn) and appended the extlang
\* 'yue', and the instance of cmn has no extlang
C18_Witness ==
    /\ call.op = "get" /\ call.err = NoErr
    /\ call.args = <<S3("zh", "cmn", "yue"), TRUE>>
    /\ \E k \in DOMAIN INSTANCES :
          /\ INSTANCES[k].language = S1("cmn")
          /\ INSTANCES[k].extlangs = <<>>
          /\ INSTANCES[call.r].language = S1("cmn")
          /\ INSTANCES[call.r].extlangs = <<S1("yue")>>

\* the set of the entries in a list of assignments
Entries(ws) == { ws[i] : i \in 1..Len(ws) }

\* the rules the table was built from that have fewer than three parts
ShortRules == { i \in 1..Len(written) : Count_(matches[i].desired) + 1 < 3 }

\* the triple Language.distance computes for a tag, after the call
TripleOf(tag) == Triple(Heap, get(Heap, tag, TRUE).r).r

\* Language.distance hands the lookup the desired triple first
DesiredFirst ==
    Called("tag_distance") =>
        call.r = tuple_distance_cached(TripleOf(call.args[1]), TripleOf(call.args[2]))

\* C19 as stated: a rule with fewer than three parts that is marked
\* oneway='true' assigns the desired-to-supported entry and nothing else, any
\* other such rule assigns that entry and the supported-to-desired entry with
\* the same distance and nothing else; Language.distance passes the desired
\* triple, then the supported triple.
C19_DirectionPreserved ==
    /\ \A i \in ShortRules :
          Entries(written[i]) =
             IF matches[i].oneway = S1("true")
             THEN { <<matches[i].desired, matches[i].supported, matches[i].distance>> }
             ELSE { <<matches[i].desired, matches[i].supported, matches[i].distance>>,
                    <<matches[i].supported, matches[i].desired, matches[i].distance>> }
    /\ DesiredFirst

\* the entry a rule's pair gets for 'sr' when it names 'sh'
SrEntry(desired, supported, dist) ==
    IF (desired = S1("sh") \/ supported = S1("sh")) /\ ShToSr(desired) /= ShToSr(supported)
    THEN { <<ShToSr(desired), ShToSr(supported), dist + 1>> }
    ELSE {}

\* C19, amended: a rule with fewer than three parts that is marked
\* oneway='true' assigns the desired-to-supported entry and, when the pair
\* names 'sh', the entry of the same pair with 'sr' for 'sh' at the distance
\* plus one, and nothing else; any other such rule assigns these entries for
\* the pair in both directions; Language.distance passes the desired triple,
\* then the supported triple.
C19_DirectionPreservedWithSr ==
    /\ \A i \in ShortRules :
          Entries(written[i]) =
             IF matches[i].oneway = S1("true")
             THEN { <<matches[i].desired, matches[i].supported, matches[i].distance>> }
                  \cup SrEntry(matches[i].desired, matches[i].supported,
                               matches[i].distance)
             ELSE { <<matches[i].desired, matches[i].supported, matches[i].distance>>,
                    <<matches[i].supported, matches[i].desired, matches[i].distance>> }
                  \cup SrEntry(matches[i].desired, matches[i].supported,
                               matches[i].distance)
                  \cup SrEntry(matches[i].supported, matches[i].desired,
                               matches[i].distance)
    /\ DesiredFirst

\* C19 witness: the table was built from a one-way rule from 'sh', which has
\* no entry in the other direction, and tag_distance('zh-Hant', 'zh-Hans')
\* has returned a distance that is not the one of the other direction
C19_Witness ==
    /\ built
    /\ Len(matches) = 1
    /\ matches[1].oneway = S1("true")
    /\ matches[1].desired = S1("sh")
    /\ matches[1].supported = S1("en")
    /\ <<S1("sh"), S1("en")>> \in DOMAIN tag_distances
    /\ <<S1("en"), S1("sh")>> \notin DOMAIN tag_distances
    /\ Called("tag_distance")
    /\ call.args = <<S2("zh", "Hant"), S2("zh", "Hans")>>
    /\ call.r /= tuple_distance_cached(TripleOf(call.args[2]), TripleOf(call.args[1]))

\* the keysets of broaden(), in the order the claim gives them
Keysets ==
    << {"language", "script", "territory"}, {"language", "territory"},
       {"language", "script"}, {"language"}, {"script"}, {} >>

\* the instance k restricted to the j-th keyset
Restricted(k, j) == KeyOf(filter_keys(to_dict(Heap, k), Keysets[j]))

\* the instances broaden() has run on
Broadened == { k \in DOMAIN INSTANCES : INSTANCES[k].broader /= NoRef }

FirstOfItsTag(k) ==
    LET Test(j) == \A i \in 1..(j - 1) :
                      to_tag(Heap, Restricted(k, i)) /= to_tag(Heap, Restricted(k, j))
    IN SelectSeq([j \in 1..Len(Keysets) |-> j], Test)

C22_NoRepeatedTag ==
    \A k \in Broadened :
        \A i \in 1..Len(INSTANCES[k].broader), j \in 1..Len(INSTANCES[k].broader) :
            i /= j => to_tag(Heap, INSTANCES[k].broader[i])
                         /= to_tag(Heap, INSTANCES[k].broader[j])

\* the indices of the elements of k's broaden() list whose tag is a key of
\* LIKELY_SUBTAGS
Hits(k) ==
    { i \in 1..Len(INSTANCES[k].broader) :
         Has(LIKELY_SUBTAGS, to_tag(Heap, INSTANCES[k].broader[i])) }

\* the table's entry for the i-th element of k's broaden() list
EntryOf(k, i) == Lookup(LIKELY_SUBTAGS, to_tag(Heap, INSTANCES[k].broader[i]))

\* the attributes of instance t where they are non-empty, else those of p
Merged(t, p) ==
    [language |-> Or(t.language, p.language), extlangs |-> Or(t.extlangs, p.extlangs),
     script |-> Or(t.script, p.script), territory |-> Or(t.territory, p.territory),
     variants |-> Or(t.variants, p.variants), extensions |-> Or(t.extensions, p.extensions),
     private |-> Or(t.private, p.private)]

\* C23: maximize() returns the likely-subtags entry of the first element of
\* broaden() whose tag is a key of the table, parsed without normalization
\* and merged with the receiver.
C23_FirstHitWins ==
    Called("maximize") =>
        /\ Hits(call.args[1]) /= {}
        /\ \E first \in Hits(call.args[1]) :
              /\ \A i \in Hits(call.args[1]) : first <= i
              /\ \E g \in {get(Heap, EntryOf(call.args[1], first), FALSE)} :
                    call.r = KeyOf(Merged(INSTANCES[call.args[1]], g.h.inst[g.r]))

\* C23 witness: maximize() has returned for an instance whose broaden() list
\* has a more specific and a more general element with different entries
C23_Witness ==
    /\ Called("maximize")
    /\ \E i \in Hits(call.args[1]), j \in Hits(call.args[1]) :
          i < j /\ EntryOf(call.args[1], i) /= EntryOf(call.args[1], j)

\* the receiver and the argument of a call are as they were made
ArgumentsIntact ==
    \A k \in Inputs : Attributes(INSTANCES[k]) = k

\* update(other): other's attributes win where they are non-empty
UpdateMerges ==
    Called("update") =>
        call.r = KeyOf(Merged(INSTANCES[call.args[2]], INSTANCES[call.args[1]]))

\* C24 as stated: update and update_dict give, for each attribute, the
\* argument's value when it is non-empty and the receiver's otherwise, and
\* change neither the receiver nor the argument.
C24_OverrideWhenNonEmpty ==
    /\ UpdateMerges
    /\ Called("update_dict") =>
          call.r = KeyOf([AttrsOf(INSTANCES[call.args[1]])
                            EXCEPT ![call.args[2]] =
                                IF Truthy(call.args[3]) THEN call.args[3] ELSE @])
    /\ ArgumentsIntact

\* C24, amended: update gives, for each attribute, the argument's value when
\* it is non-empty and the receiver's otherwise; update_dict gives the
\* dict's value for each attribute that is a key of the dict, empty or not,
\* and the receiver's for the others; neither changes the receiver or the
\* argument.
C24_OverrideWhenPresent ==
    /\ UpdateMerges
    /\ Called("update_dict") =>
          call.r = KeyOf([AttrsOf(INSTANCES[call.args[1]])
                            EXCEPT ![call.args[2]] = call.args[3]])
    /\ ArgumentsIntact

\* C24 witness: update_dict({'script': None}) on an instance with a script
\* has returned an instance without one
C24_Witness ==
    /\ Called("update_dict")
    /\ call.args[2] = "script" /\ call.args[3] = None
    /\ Truthy(INSTANCES[call.args[1]].script)
    /\ ~Truthy(INSTANCES[call.r].script)
    /\ Truthy(INSTANCES[call.args[1]].variants)

\* the script of the instance is the default script of its language
HasDefaultScript(i) ==
    /\ Truthy(i.language) /\ Truthy(i.script)
    /\ \E e \in DEFAULT_SCRIPTS : e[1] = i.language /\ e[2] = i.script

\* C25: simplify_script() returns the instance without its script, every
\* other attribute unchanged, exactly when language and script are set and
\* the script is the default script of the language; otherwise it returns
\* the receiver.
C25_DropsDefaultScriptOnly ==
    Called("simplify_script") =>
        call.r = IF HasDefaultScript(INSTANCES[call.args[1]])
                 THEN KeyOf([AttrsOf(INSTANCES[call.args[1]]) EXCEPT !.script = None])
                 ELSE call.args[1]

\* C25 witness: simplify_script() has dropped the default script of an
\* instance that has a territory and variants
C25_Witness ==
    /\ Called("simplify_script")
    /\ HasDefaultScript(INSTANCES[call.args[1]])
    /\ Truthy(INSTANCES[call.args[1]].variants)
    /\ call.r /= call.args[1]
    /\ INSTANCES[call.r].variants = INSTANCES[call.args[1]].variants

\* language, script and territory of the instance are all None
Unset(k) ==
    /\ INSTANCES[k].language = None /\ INSTANCES[k].script = None
    /\ INSTANCES[k].territory = None

\* the (language, script, territory) of k.prefer_macrolanguage().maximize(),
\* read from the cached members
MaximizedTriple(k) ==
    << INSTANCES[INSTANCES[INSTANCES[k].macrolanguage].filled].language,
       INSTANCES[INSTANCES[INSTANCES[k].macrolanguage].filled].script,
       INSTANCES[INSTANCES[INSTANCES[k].macrolanguage].filled].territory >>

\* the triple the claim gives a side of distance
SideTriple(k) ==
    IF Unset(k) THEN <<S1("und"), S1("Zzzz"), S1("ZZ")>> ELSE MaximizedTriple(k)

\* C26: the distance of two tags that are not equal is the table distance of
\* (desired triple, supported triple), where a side with language, script
\* and territory all unset has the wildcard triple and is not maximized, and
\* any other side has the language, script and territory of
\* prefer_macrolanguage().maximize().
C26_DistanceOfTriples ==
    (/\ Called("distance_between")
     /\ to_tag(Heap, call.args[1]) /= to_tag(Heap, call.args[2]))
    => /\ call.r = tuple_distance_cached(SideTriple(call.args[1]),
                                         SideTriple(call.args[2]))
       /\ \A n \in 1..2 : Unset(call.args[n]) =>
             /\ INSTANCES[call.args[n]].macrolanguage = NoRef
             /\ INSTANCES[call.args[n]].filled = NoRef

\* C26 witness: a distance was computed between the tag with nothing set and
\* a tag with a macrolanguage, or with variants or private-use
C26_Witness ==
    /\ Called("distance_between")
    /\ Unset(call.args[1])
    /\ ~Unset(call.args[2])
    /\ \/ INSTANCES[call.args[2]].macrolanguage /= call.args[2]
       \/ Truthy(INSTANCES[call.args[2]].variants)
       \/ Truthy(INSTANCES[call.args[2]].private)


\* the tag Language.get parses: the replacement of the whole tag if the
\* lower-cased tag has one
WholeTagReplaced(tag) ==
    IF Has(LANGUAGE_REPLACEMENTS, LowerStr(tag))
    THEN Lookup(LANGUAGE_REPLACEMENTS, LowerStr(tag)) ELSE tag

RECURSIVE SubtagsInOrder(_, _)

\* the attributes of a tag after the whole-tag replacement and then the
\* replacements of its subtags, one subtag after the other
NormalizedAttributes(tag) ==
    SubtagsInOrder(parse_tag(WholeTagReplaced(tag)).comps, EmptyData)

\* the subtags that are left, applied one after the other to the attributes
\* collected so far
SubtagsInOrder(comps, data) ==
    IF comps = <<>> THEN data
    ELSE LET typ == Head(comps)[1]
             value == Head(comps)[2]
             pair == LowerStr(data.language \o <<"-">> \o value)
             next ==
               IF typ = "language" /\ value = S1("und") THEN data
               ELSE IF typ = "language" /\ Has(LANGUAGE_REPLACEMENTS, LowerStr(value))
               THEN DictUpdate(data,
                        NormalizedAttributes(Lookup(LANGUAGE_REPLACEMENTS, LowerStr(value))))
               ELSE IF typ = "extlang" /\ data.language /= None
                       /\ Has(LANGUAGE_REPLACEMENTS, pair)
               THEN DictUpdate(data,
                        NormalizedAttributes(Lookup(LANGUAGE_REPLACEMENTS, pair)))
               ELSE IF typ = "territory" /\ Has(TERRITORY_REPLACEMENTS, LowerStr(value))
               THEN [data EXCEPT !.territory = Lookup(TERRITORY_REPLACEMENTS, LowerStr(value))]
               ELSE IF typ \in {"extlang", "variant", "extension"}
               THEN [data EXCEPT ![typ \o "s"] = Append(@, value)]
               ELSE IF typ = "grandfathered" THEN [data EXCEPT !.language = value]
               ELSE [data EXCEPT ![typ] = value]
         IN SubtagsInOrder(Tail(comps), next)

RECURSIVE SubtagsAsGiven(_, _)

\* the subtags applied without any table: each is stored as it was parsed,
\* and a language of 'und' sets no language
SubtagsAsGiven(comps, data) ==
    IF comps = <<>> THEN data
    ELSE LET typ == Head(comps)[1]
             value == Head(comps)[2]
             next ==
               IF typ = "language" /\ value = S1("und") THEN data
               ELSE IF typ \in {"extlang", "variant", "extension"}
               THEN [data EXCEPT ![typ \o "s"] = Append(@, value)]
               ELSE IF typ = "grandfathered" THEN [data EXCEPT !.language = value]
               ELSE [data EXCEPT ![typ] = value]
         IN SubtagsAsGiven(Tail(comps), next)

\* C27: Language.get with normalize=True replaces the whole lower-cased tag
\* first if it is a key of the language replacements, then goes through the
\* subtags in sequence: 'und' sets no language, a deprecated language is
\* replaced by its parsed replacement, an extlang after a language is looked
\* up as the pair language-extlang and appended only if the pair has no
\* replacement, a territory is replaced through the territory table; with
\* normalize=False no table is consulted.
C27_ReplacementsInOrder ==
    call.op = "get_tag" =>
        \E tag \in {call.args[1]}, normalize \in {call.args[2]} :
            \E p \in {parse_tag(IF normalize THEN WholeTagReplaced(tag) ELSE tag)} :
                IF ~p.ok THEN call.err /= NoErr
                ELSE /\ call.err = NoErr
                     /\ AttrsOf(INSTANCES[call.r]) =
                            IF normalize THEN SubtagsInOrder(p.comps, EmptyData)
                            ELSE SubtagsAsGiven(p.comps, EmptyData)

\* C27 witness: in 'sh-Cyrl' the deprecated language sh has been replaced by
\* the parsed sr-Latn, and the script Cyrl that follows it in the tag has
\* been written over the script of the replacement
C27_Witness ==
    /\ call.op = "get_tag" /\ call.err = NoErr
    /\ call.args = <<S2("sh", "Cyrl"), TRUE>>
    /\ to_tag(Heap, call.r) = S2("sr", "Cyrl")
    /\ <<S2("sr", "Latn"), TRUE>> \in DOMAIN PARSE_CACHE


\* the (desired, supported) pairs a rule with fewer than three parts is read
\* as: the pair of the rule, and the reversed pair unless it is one-way
Directions(match) ==
    { <<match.desired, match.supported>> }
    \cup (IF match.oneway = S1("true") THEN {}
          ELSE { <<match.supported, match.desired>> })

\* a code with 'sr' in the place of 'sh'
WithSr(code) == IF code = S1("sh") THEN S1("sr") ELSE code

\* the pairs assigned once in the whole run
AssignedOnce ==
    { pr \in DOMAIN tag_distances :
        \A i, j \in 1..Len(written) :
            \A m \in 1..Len(written[i]), n \in 1..Len(written[j]) :
                (<<written[i][m][1], written[i][m][2]>> = pr
                 /\ <<written[j][n][1], written[j][n][2]>> = pr)
                    => (i = j /\ m = n) }

\* C28: a rule with fewer than three parts assigns, for each of its pairs
\* that has 'sh' as desired or supported, also the pair with 'sr' in the
\* place of 'sh' at the distance of the rule plus 1, unless that pair is
\* sr to sr; it assigns nothing else, so an entry from sr to sr is never a
\* derived one; the derived entry stays, in the table, a worse match than
\* the entry it was derived from.
C28_ShPatchedAsSr ==
    built =>
        \A i \in ShortRules :
            /\ Entries(written[i]) =
                   { <<pr[1], pr[2], matches[i].distance>> : pr \in Directions(matches[i]) }
                   \cup { <<WithSr(pr[1]), WithSr(pr[2]), matches[i].distance + 1>> :
                            pr \in { q \in Directions(matches[i]) :
                                       /\ S1("sh") \in {q[1], q[2]}
                                       /\ WithSr(q[1]) /= WithSr(q[2]) } }
            /\ \A pr \in Directions(matches[i]) :
                  ({pr, <<WithSr(pr[1]), WithSr(pr[2])>>} \subseteq AssignedOnce
                   /\ S1("sh") \in {pr[1], pr[2]}
                   /\ WithSr(pr[1]) /= WithSr(pr[2]))
                      => tag_distances[<<WithSr(pr[1]), WithSr(pr[2])>>]
                             = tag_distances[pr] + 1

\* C28 witness: the two-way rule sh-en at distance 4 has been read: the
\* table has sr to en and en to sr at 5 next to sh to en and en to sh at 4
C28_Witness ==
    /\ built /\ Len(matches) >= 1
    /\ matches[1].desired = S1("sh") /\ matches[1].supported = S1("en")
    /\ matches[1].distance = 4 /\ matches[1].oneway /= S1("true")
    /\ tag_distances[<<S1("sh"), S1("en")>>] = 4
    /\ tag_distances[<<S1("en"), S1("sh")>>] = 4
    /\ tag_distances[<<S1("sr"), S1("en")>>] = 5
    /\ tag_distances[<<S1("en"), S1("sr")>>] = 5


\* C30: any two Language objects that compare equal have the same hash, also
\* when they were built from different attribute tuples that serialize
\* identically.
C30_EqualObjectsHashEqual ==
    \A a, b \in DOMAIN INSTANCES :
        eq(Heap, a, b) => hash(Heap, a) = hash(Heap, b)


\* the caches with nothing in the parse cache
EmptiedParseCache == [Heap EXCEPT !.pc = EmptyMap]

\* C29: whatever calls of Language.get came before, Language.get(s, normalize)
\* returns (or raises) for every tag and flag what it returns with an empty
\* parse cache; an entry stored under the replacement of a whole tag is
\* returned to a later get of that string and is what that get computes.
C29_ParseCacheTransparent ==
    \A s \in GetTags, normalize \in BOOLEAN :
        \E cached \in {get(Heap, s, normalize)},
           computed \in {get(EmptiedParseCache, s, normalize)} :
            /\ cached.r = computed.r
            /\ cached.err = computed.err

\* C29 witness: Language.get('sh') has stored its result under the
\* replacement 'sr-Latn' of the whole tag, and not under 'sh'; a get of
\* 'sr-Latn' is now answered from that entry
C29_Witness ==
    /\ call.op = "get_tag" /\ call.args = <<S1("sh"), TRUE>> /\ ncalls = 1
    /\ DOMAIN PARSE_CACHE = { <<S2("sr", "Latn"), TRUE>> }
    /\ get(Heap, S2("sr", "Latn"), TRUE) = Ret(Heap, PARSE_CACHE[<<S2("sr", "Latn"), TRUE>>])
    /\ to_tag(Heap, call.r) = S2("sr", "Latn")

====
